---- MODULE Spec2Model ----
(***************************************************************************)
(* Benchmark orchestrators of FlowPrizeVault.                              *)
(*                                                                         *)
(* Four scripts drive the same four-phase draw pipeline (startDraw,        *)
(* processDrawBatch loop, requestDrawRandomness, completeDraw) against an  *)
(* emulator and record the metered computation of each phase:              *)
(*   "DC"  benchmark/benchmark_draw_computation.py (run_full_draw_benchmark)*)
(*   "CD"  benchmark/benchmark_complete_draw.py    (run_single_benchmark)  *)
(*   "LU"  benchmark/benchmark_lazy_users.py       (main)                  *)
(*   "BC"  benchmark_computation.py                (run_multi_user_benchmark)*)
(* The emulator is the environment: every answer it gives (operation       *)
(* sealed / failed / failed with "already complete" / no answer within the *)
(* hard timeout, the isBatchComplete flag, the reported computation) is    *)
(* chosen nondeterministically.  One action is one operation issued        *)
(* against the emulator together with the code that runs up to the next    *)
(* operation.                                                              *)
(***************************************************************************)
EXTENDS Integers, Sequences, FiniteSets, TLC

(* ------------------------------ bounds -------------------------------- *)
MaxUsers == 2
MaxBatch == 2
MaxComp == 1
MaxRuns == 2
MaxLoad == 3
MaxStep == 2
MaxCost == 3
MaxSamples == 3
MaxEntries == 2
MaxResults == 2
MaxOps == 2

(* ------------------------- program constants -------------------------- *)
\* benchmark_draw_computation.py:978  max_batches = (user_count // batch_size) + 5
DC_SAFETY_MARGIN == 5
\* benchmark_complete_draw.py:481  while batch_count < 100
CD_MAX_BATCHES == 100
\* benchmark_lazy_users.py:328  for _ in range(100)
LU_MAX_BATCHES == 100
\* benchmark_computation.py:662  max_batches = (user_count // batch_size) + 10
BC_SAFETY_MARGIN == 10
\* benchmark_lazy_users.py:447  for attempt in range(3)
LU_COMPLETE_ATTEMPTS == 3

\* benchmark_draw_computation.py:1308  if variance_ratio > 2
DC_VARIANCE_THRESHOLD == 2
\* benchmark_complete_draw.py:685  high_count: c > 5000
CD_HIGH_THRESHOLD == 5000
\* benchmark_draw_computation.py:217  max_attempts = 30
MAX_ATTEMPTS == 30
\* benchmark_draw_computation.py:65  COMPUTE_LIMIT = 9999
DC_COMPUTE_LIMIT == 9999
\* benchmark_complete_draw.py:53  COMPUTE_LIMIT = 9999
CD_COMPUTE_LIMIT == 9999
\* benchmark_complete_draw.py:537  compute_limit=99999
CD_COMPLETE_LIMIT == 99999
\* benchmark_lazy_users.py:43  COMPUTE_LIMIT = 99999
LU_COMPUTE_LIMIT == 99999
\* benchmark_computation.py:211  compute_limit: int = 9999
BC_COMPUTE_LIMIT == 9999
\* benchmark_computation.py:908  theoretical_max = int(9999 / avg_per_user)
CU_LIMIT == 9999
\* benchmark_computation.py:909  safe_max = int(theoretical_max * 0.9)
SAFE_TENTHS == 9

(* Python's None where an Optional[int] is returned.                       *)
None == -1

Drivers == {"DC", "CD", "LU", "BC"}

(* What the emulator / flow CLI can answer to one transaction.             *)
Answers == {"sealed", "error", "already", "timeout"}

(* The operations of the pipeline proper.                                  *)
PipelineOps == {"start", "batch", "rand", "complete"}

VARIABLES
    driver,        \* which script runs
    user_count,    \* --users
    batch_size,    \* --batch-size (DC, BC); CD and LU pass user_count
    env,           \* the emulator: "any" answer, or "counting" participants
    skip_setup,    \* --skip-setup (DC)
    num_runs,      \* --runs (DC, CD)
    comp_max,      \* largest computation the emulator reports in this execution
    pc,            \* position of the script
    run_num,       \* loop variable of the run loop
    test,          \* LU: 1 = active users test, 2 = lazy users test
    loop_i,        \* LU: index of  for _ in range(100);  BC: batch_num
    batch_count,   \* DC, CD: batch_count; LU: batch_count; BC: len(batch_cus)
    total_batch,   \* total_batch_computation / batch_comp_total / sum(batch_cus)
    batch_computations, \* DC: batch_computations, one measurement per iteration
    attempt,       \* LU: completeDraw attempt
    phases,        \* phases recorded so far in the current run, in order
    ret,           \* LU: value returned by benchmark_process_draw_batch
    results,       \* runs / all_results / results collected by main
    rc,            \* exit status of main: -1 running, 0, 1, 2 = uncaught exception
    runs_started,  \* history: run iterations entered
    last_op,       \* history: the operation issued by the latest step
    last_ans,      \* history: the emulator's answer to that operation ("none": not a transaction of the pipeline)
    start_state,   \* history: outcome of this run's startDraw
    batch_failed,  \* history: a batch operation of this run failed, not "already complete"
    batch_exit,    \* history: why the batch loop of this run ended
    rand_state,    \* history: outcome of this run's last randomness request
    rand_issued,   \* history: randomness requests issued in this run
    settled,       \* history: a settle wait took place after the last randomness request
    complete_state, \* history: outcome of this run's last completeDraw
    emulator_process, \* the global emulator_process: "none" (None) or "held" (a Popen handle)
    start_result,  \* history: what the call of start_emulator returned
    start_attempts, \* history: calls of start_emulator
    stop_called,   \* history: stop_emulator has been called
    results_file,  \* main: what save_results* wrote, [written, records]
    fl_pc,         \* find_batch_limit: position ("idle": not called)
    start_users,   \* find_batch_limit: start_users
    step,          \* find_batch_limit: step
    max_users,     \* find_batch_limit: max_users
    fl_probes,     \* history: the probes issued, [load, success, computation]
    fl_results,    \* find_batch_limit: results, the samples [batch_size, computation]
    fl_ret,        \* find_batch_limit: the dict returned
    va_pc,         \* variability analysis: position ("idle": not called)
    va_costs,      \* variability analysis: the computations analysed
    va_report,     \* variability analysis: what is printed
    rp_fn,         \* report lookup: the function that resolves ("none": not called)
    rp_tx_id,      \* report lookup: the id of the operation measured
    rp_report,     \* report lookup: the "transactions" of the emulator's report
    rp_success,    \* report lookup: the success value of the operation measured
    rp_outs,       \* report lookup: what each call so far gave
    tx_fn,         \* run_flow_tx: the script whose run_flow_tx is called ("none")
    tx_resp,       \* run_flow_tx: what the flow CLI does
    tx_out,        \* run_flow_tx: what the call gives
    se,            \* start_emulator called on its own: the record of its state
    sx,            \* user creation across runs: the record of its state
    sm,            \* print_benchmark_summary: the record of its state
    pf             \* measurement of operations: the record of its state

vars == <<driver, user_count, batch_size, num_runs, comp_max, pc, run_num, test,
          loop_i, batch_count, total_batch, batch_computations, attempt, phases,
          ret, results, rc,
          runs_started, last_op, last_ans, start_state, batch_failed, batch_exit,
          rand_state, rand_issued, settled, complete_state, skip_setup, env,
          emulator_process, start_result, start_attempts, stop_called,
          results_file,
          fl_pc, start_users, step, max_users, fl_probes, fl_results, fl_ret,
          va_pc, va_costs, va_report,
          rp_fn, rp_tx_id, rp_report, rp_success, rp_outs,
          tx_fn, tx_resp, tx_out,
          se, sx, sm, pf>>

config == <<driver, user_count, batch_size, num_runs, comp_max, skip_setup, env>>
locals == <<loop_i, batch_count, total_batch, batch_computations, attempt, phases>>
runhist == <<start_state, batch_failed, batch_exit, rand_state, rand_issued,
             settled, complete_state>>

fl_vars == <<fl_pc, start_users, step, max_users, fl_probes, fl_results, fl_ret>>
va_vars == <<va_pc, va_costs, va_report>>
rp_vars == <<rp_fn, rp_tx_id, rp_report, rp_success, rp_outs>>
tx_vars == <<tx_fn, tx_resp, tx_out>>
ext_vars == <<se, sx, sm, pf>>

(* start_emulator: the script whose function is called ("none"),            *)
(* enable_profiling, the position ("idle": not called), the loop variable   *)
(* i, the calls of check_emulator_health and of time.sleep(1) so far, the   *)
(* latest health answer and the value returned.                             *)
se_fn == se.fn
se_profiling == se.profiling
se_pc == se.pc
se_i == se.i
se_polls == se.polls
se_sleeps == se.sleeps
se_last == se.last
se_ret == se.ret

(* User creation: the script that runs, args.users, args.runs, run_num, the *)
(* position, the largest pool id in existence, pool_id of the current run   *)
(* and the storage index ranges written so far, [pool, start, count].       *)
sx_fn == sx.fn
sx_user_count == sx.user_count
sx_num_runs == sx.num_runs
sx_run_num == sx.run_num
sx_pc == sx.pc
sx_last_pool == sx.last_pool
sx_pool_id == sx.pool_id
sx_ranges == sx.ranges

(* print_benchmark_summary: the position, results as pairs [user_count,     *)
(* total_batch_cu] and max_users as printed.                                *)
sm_pc == sm.pc
sm_results == sm.results
sm_max_users == sm.max_users

(* Measurement: the script that measures, CD save_profile, the number of    *)
(* operations, the operation being measured, the position in the statements *)
(* of the function, what run_flow_tx gave [success, tx_id], the local       *)
(* report [at, ok], the requests sent to the emulator in order, and the     *)
(* computations recorded [op, source].                                      *)
pf_fn == pf.fn
pf_profile == pf.profile
pf_ops == pf.ops
pf_op == pf.op
pf_i == pf.i
pf_tx == pf.tx
pf_report == pf.report
pf_log == pf.log
pf_records == pf.records

Comps == 0 .. comp_max

RECURSIVE SumComputation(_)
SumComputation(ps) ==
    IF ps = <<>> THEN 0
    ELSE Head(ps).total_computation + SumComputation(Tail(ps))

RECURSIVE SumTxCount(_)
SumTxCount(ps) ==
    IF ps = <<>> THEN 0
    ELSE Head(ps).tx_count + SumTxCount(Tail(ps))

PhaseResult(name, comp, n) ==
    [phase_name |-> name, total_computation |-> comp, tx_count |-> n]

(* The record main collects for one run.                                   *)
RunRecord(ps, err) ==
    [phases |-> ps, error |-> err,
     total_computation |-> SumComputation(ps),
     total_tx_count |-> SumTxCount(ps)]

PhaseNames(ps) == {ps[i].phase_name : i \in 1 .. Len(ps)}

(* ------------------------------- Init --------------------------------- *)
(* find_batch_limit is not called.                                          *)
NoLimit ==
    /\ fl_pc = "idle"
    /\ start_users = 0
    /\ step = 0
    /\ max_users = 0
    /\ fl_probes = <<>>
    /\ fl_results = <<>>
    /\ fl_ret = [kind |-> "none"]

(* The variability analysis is not called.                                  *)
NoAnalysis ==
    /\ va_pc = "idle"
    /\ va_costs = <<>>
    /\ va_report = [kind |-> "none"]

NoReport ==
    /\ rp_fn = "none"
    /\ rp_tx_id = <<>>
    /\ rp_report = <<>>
    /\ rp_success = FALSE
    /\ rp_outs = <<>>

NoInvocation ==
    /\ tx_fn = "none"
    /\ tx_resp = [kind |-> "none"]
    /\ tx_out = [kind |-> "none"]

(* start_emulator is not called on its own.                                 *)
NoEmulatorStart ==
    se = [fn |-> "none", profiling |-> FALSE, pc |-> "idle", i |-> 0, polls |-> 0,
          sleeps |-> 0, last |-> "none", ret |-> "none"]

(* No users are created outside the pipeline.                               *)
NoStorage ==
    sx = [fn |-> "none", user_count |-> 0, num_runs |-> 0, run_num |-> 0,
          pc |-> "idle", last_pool |-> 0, pool_id |-> 0, ranges |-> <<>>]

(* print_benchmark_summary is not called on its own.                        *)
NoSummary ==
    sm = [pc |-> "idle", results |-> <<>>, max_users |-> None]

(* No report has been fetched: the local variable report is unbound.        *)
NoFetch == [at |-> 0, ok |-> FALSE]
NoTx == [success |-> FALSE, tx_id |-> FALSE]

(* No operation is measured outside the pipeline.                           *)
NoMeasurement ==
    pf = [fn |-> "none", profile |-> FALSE, ops |-> 0, op |-> 0, i |-> 0,
          tx |-> NoTx, report |-> NoFetch, log |-> <<>>, records |-> <<>>]

NoExt ==
    /\ NoEmulatorStart
    /\ NoStorage
    /\ NoSummary
    /\ NoMeasurement

(* No results file has been written.                                        *)
NoFile == [written |-> FALSE, records |-> <<>>]

(* The state in which main enters its try statement.                       *)
PipelineStart ==
    /\ pc = (IF driver = "BC" THEN "pool" ELSE "emulator")
    /\ emulator_process = "none"
    /\ start_result = "none"
    /\ start_attempts = 0
    /\ stop_called = FALSE
    /\ results_file = NoFile
    /\ run_num = 1
    /\ test = 1
    /\ loop_i = 0
    /\ batch_count = 0
    /\ total_batch = 0
    /\ batch_computations = <<>>
    /\ attempt = 0
    /\ phases = <<>>
    /\ ret = None
    /\ results = <<>>
    /\ rc = -1
    /\ runs_started = 0
    /\ last_op = "none"
    /\ last_ans = "none"
    /\ start_state = "none"
    /\ batch_failed = FALSE
    /\ batch_exit = "none"
    /\ rand_state = "none"
    /\ rand_issued = 0
    /\ settled = FALSE
    /\ complete_state = "none"

(* The command line of one execution.                                      *)
PipelineInit ==
    /\ driver \in Drivers
    /\ user_count \in 1 .. MaxUsers
    /\ batch_size \in (IF driver \in {"DC", "BC"} THEN 1 .. MaxBatch ELSE {user_count})
    /\ skip_setup \in (IF driver = "DC" THEN BOOLEAN ELSE {FALSE})
    /\ PipelineStart

(* An emulator of which nothing is assumed.                                *)
AnyEnvironment == env = "any"

InitCommon ==
    /\ NoLimit
    /\ NoAnalysis
    /\ NoReport
    /\ NoInvocation
    /\ NoExt
    /\ AnyEnvironment
    /\ PipelineInit

(* One run per execution, with measured computations 0 .. MaxComp.         *)
Init ==
    /\ InitCommon
    /\ num_runs = 1
    /\ comp_max = MaxComp

(* Up to MaxRuns runs per execution (--runs of DC and CD); the emulator     *)
(* reports computation 0 for every operation.                               *)
InitRuns ==
    /\ InitCommon
    /\ num_runs \in (IF driver \in {"DC", "CD"} THEN 1 .. MaxRuns ELSE {1})
    /\ comp_max = 0

(* --------------------------- shared helpers --------------------------- *)
(* The --compute-limit a driver passes with a pipeline operation: the       *)
(* default of its run_flow_tx / execute_draw_phase / run_transaction unless *)
(* the call site names another.                                             *)
compute_limit(d, op) ==
    CASE d = "DC" -> DC_COMPUTE_LIMIT
      [] d = "CD" -> IF op = "complete" THEN CD_COMPLETE_LIMIT ELSE CD_COMPUTE_LIMIT
      [] d = "LU" -> LU_COMPUTE_LIMIT
      [] OTHER -> BC_COMPUTE_LIMIT

ResetLocals ==
    /\ loop_i' = 0
    /\ batch_count' = 0
    /\ total_batch' = 0
    /\ batch_computations' = <<>>
    /\ attempt' = 0
    /\ phases' = <<>>

(* The first step of a run: a fresh history for the new run.               *)
BeginRun ==
    /\ runs_started' = runs_started + 1
    /\ start_state' = "none"
    /\ batch_failed' = FALSE
    /\ batch_exit' = "none"
    /\ rand_state' = "none"
    /\ rand_issued' = 0
    /\ settled' = FALSE
    /\ complete_state' = "none"

(* The body of the run loop ends; main goes to the next iteration or, after *)
(* the last one, prints the summary and returns 0.                          *)
NextIteration(newResults) ==
    /\ results' = newResults
    /\ ResetLocals
    /\ IF run_num < num_runs
       THEN /\ run_num' = run_num + 1
            /\ pc' = "pool"
            /\ rc' = rc
       ELSE /\ run_num' = run_num
            /\ pc' = "done"
            /\ rc' = 0

(* main returns with the given status (2: it is left by an exception).     *)
MainReturn(code) ==
    /\ pc' = "done"
    /\ rc' = code
    /\ ResetLocals
    /\ UNCHANGED <<run_num, results>>

(* stop_emulator: a held process is terminated (killed when it does not     *)
(* exit within 5 s) and emulator_process = None; None stays None.           *)
stop_emulator(handle) == "none"

(* A variant of main's finally clause that never stops the emulator of LU.  *)
main_finally_stops_not_for_LU(d, skip) ==
    CASE d = "DC" -> ~skip
      [] d = "CD" -> TRUE
      [] OTHER -> FALSE

(* Whether main has a finally clause that calls stop_emulator:              *)
(* DC: finally: if not args.skip_setup: stop_emulator();                    *)
(* CD, LU: finally: stop_emulator();  BC manages no emulator.               *)
main_finally_stops(d, skip) ==
    CASE d = "DC" -> ~skip
      [] d \in {"CD", "LU"} -> TRUE
      [] OTHER -> FALSE

(* The finally clause of main, run when main is left in this step;          *)
(* handle is emulator_process as the body of the try leaves it.             *)
main_finally(handle) ==
    IF pc' = "done" /\ main_finally_stops(driver, skip_setup)
    THEN /\ stop_called' = TRUE
         /\ emulator_process' = stop_emulator(handle)
    ELSE /\ stop_called' = stop_called
         /\ emulator_process' = handle

(* A step of main after start_emulator has returned.                        *)
InTry ==
    /\ main_finally(emulator_process)
    /\ UNCHANGED <<start_result, start_attempts>>

(* Whether main writes the results files when it returns with this status:  *)
(* the save calls stand at the end of the try body, after the run loop, so  *)
(* they are reached only on the path that returns 0.                        *)
(* DC: "if runs: ... save_results_csv(runs, ...); save_results_json(...)";  *)
(* CD: "save_results(all_results, ...)".                                    *)
main_saves(d, code, records) ==
    CASE d = "DC" -> code = 0 /\ records # <<>>
      [] d = "CD" -> code = 0
      [] OTHER -> FALSE

(* The end of main's try body, run when main is left in this step.          *)
main_save ==
    IF pc' = "done" /\ main_saves(driver, rc', results')
    THEN results_file' = [written |-> TRUE, records |-> results']
    ELSE results_file' = results_file

(* A step of the draw pipeline leaves the state of the other functions.     *)
PipelineStep ==
    /\ main_save
    /\ UNCHANGED <<fl_vars, va_vars, rp_vars, tx_vars, ext_vars>>

(* The batch loop is over: the loop variables are not read again.          *)
LoopDone ==
    /\ loop_i' = 0
    /\ batch_count' = 0
    /\ total_batch' = 0

(* ============ benchmark/benchmark_draw_computation.py ("DC") ============ *)

(* run_flow_tx via run_command: a timeout is caught and comes back as exit *)
(* code -1 with empty stdout, which the text fallback classifies as failed. *)
DC_run_flow_tx_success(ans) == ans = "sealed"

(* Participants the contract has still to process after  count  batch      *)
(* operations, each of which processes min(batch_size, remaining).          *)
EnvRemaining(count) ==
    IF user_count > count * batch_size THEN user_count - count * batch_size ELSE 0

(* What get_draw_status can report as isBatchComplete after  count          *)
(* successful batch operations.                                             *)
EnvBatchComplete(count) ==
    IF env = "counting" THEN {EnvRemaining(count) = 0} ELSE BOOLEAN

(* What the emulator can answer to a batch operation.                       *)
EnvBatchAnswers == IF env = "counting" THEN {"sealed"} ELSE Answers

DC_max_batches == (user_count \div batch_size) + DC_SAFETY_MARGIN

(* A variant of the loop condition that admits one iteration too many.      *)
DC_loop_guard_off_by_one(count) == count <= DC_max_batches

(* while batch_count < max_batches                                          *)
DC_loop_guard(count) == count < DC_max_batches

(* A variant that never looks at isBatchComplete.                           *)
DC_loop_exit_ignoring_status(ok, is_batch_complete, count) ==
    IF ~ok THEN "failed"
    ELSE IF DC_loop_guard(count) THEN "none"
    ELSE "ceiling"

(* A variant that also keeps the measurement of a failed operation.        *)
DC_batch_computations_append_always(ok, measurements, comp) ==
    Append(measurements, comp)

(* if not result.success: break;                                            *)
(* batch_computations.append(result.computation)                            *)
DC_batch_computations_append(ok, measurements, comp) ==
    IF ok THEN Append(measurements, comp) ELSE measurements

(* Why an iteration of the batch loop ends the loop ("none": it goes on).   *)
DC_loop_exit(ok, is_batch_complete, count) ==
    IF ~ok THEN "failed"
    ELSE IF is_batch_complete THEN "complete"
    ELSE IF DC_loop_guard(count) THEN "none"
    ELSE "ceiling"

(* A variant that goes on to the batch phase whatever startPoolDraw said.   *)
DC_after_start_ignoring_failure(ok) == "batch"

(* Where run_full_draw_benchmark goes after startPoolDraw:                  *)
(* if not success: ... return None                                          *)
DC_after_start(ok) == IF ok THEN "batch" ELSE "return"

(* A variant that leaves out the randomness request.                        *)
DC_after_batch_loop_skipping_randomness(exit) == "settle"

(* Where run_full_draw_benchmark goes after the batch loop: both  break     *)
(* statements and the exhausted loop condition fall through to Phase 3.     *)
DC_after_batch_loop(exit) == "rand"

(* A variant that issues the randomness request again after a failure.      *)
DC_after_randomness_retrying(ok) == IF ok THEN "settle" ELSE "rand"

(* Where run_full_draw_benchmark goes after requestDrawRandomness: on       *)
(* failure it prints "Continuing to try completeDraw anyway..."             *)
DC_after_randomness(ok) == "settle"

(* A variant that drops the phases gathered when completePoolDraw fails.    *)
DC_phases_after_complete_dropping(ok, ps, comp) ==
    IF ok THEN Append(ps, PhaseResult("completePoolDraw", comp, 1)) ELSE <<>>

(* The phases of the run returned after Phase 4: completePoolDraw is        *)
(* appended only on success, the earlier phases stay.                       *)
DC_phases_after_complete(ok, ps, comp) ==
    IF ok THEN Append(ps, PhaseResult("completePoolDraw", comp, 1)) ELSE ps

(* main: pool_id = setup_pool(...); None -> return 1                        *)
DC_setup_pool ==
    /\ driver = "DC" /\ pc = "pool"
    /\ BeginRun
    /\ last_op' = "pool"
    /\ last_ans' = "none"
    /\ \E ok \in BOOLEAN :
          IF ok
          THEN /\ pc' = "users"
               /\ UNCHANGED <<run_num, results, rc, locals>>
          ELSE MainReturn(1)
    /\ UNCHANGED <<config, test, ret>>
    /\ InTry
    /\ PipelineStep

(* main: created = setup_simulated_users(...); False -> return 1            *)
DC_setup_simulated_users ==
    /\ driver = "DC" /\ pc = "users"
    /\ last_op' = "users"
    /\ last_ans' = "none"
    /\ \E ok \in BOOLEAN :
          IF ok
          THEN /\ pc' = "fund"
               /\ UNCHANGED <<run_num, results, rc, locals>>
          ELSE MainReturn(1)
    /\ UNCHANGED <<config, test, ret, runs_started, runhist>>
    /\ InTry
    /\ PipelineStep

(* run_full_draw_benchmark: fund_lottery_pool; a failure is only printed.   *)
DC_fund_lottery_pool ==
    /\ driver = "DC" /\ pc = "fund"
    /\ last_op' = "fund"
    /\ last_ans' = "none"
    /\ \E ok \in BOOLEAN : pc' = "start"
    /\ UNCHANGED <<config, run_num, test, locals, ret, results, rc,
                   runs_started, runhist>>
    /\ InTry
    /\ PipelineStep

(* Phase 1: startPoolDraw; on failure return None, which main does not      *)
(* append to runs.                                                          *)
DC_startPoolDraw ==
    /\ driver = "DC" /\ pc = "start"
    /\ last_op' = "start"
    /\ \E ans \in Answers, comp \in Comps :
          /\ last_ans' = ans
          /\ LET ok == DC_run_flow_tx_success(ans)
             IN /\ start_state' = (IF ok THEN "ok" ELSE "failed")
                /\ IF DC_after_start(ok) = "batch"
                   THEN /\ phases' = (IF ok
                                      THEN Append(phases, PhaseResult("startPoolDraw", comp, 1))
                                      ELSE phases)
                        /\ batch_count' = 0
                        /\ total_batch' = 0
                        /\ batch_computations' = <<>>
                        /\ pc' = "batch"
                        /\ UNCHANGED <<run_num, results, rc, loop_i, attempt>>
                   ELSE NextIteration(results)
    /\ UNCHANGED <<config, test, ret, runs_started, batch_failed, batch_exit,
                   rand_state, rand_issued, settled, complete_state>>
    /\ InTry
    /\ PipelineStep

(* Phase 2: one iteration of  while batch_count < max_batches,  with the    *)
(* isBatchComplete query that follows a successful batch; when the loop     *)
(* ends the processDrawBatch phase is appended.                             *)
DC_processDrawBatch ==
    /\ driver = "DC" /\ pc = "batch"
    /\ DC_loop_guard(batch_count)
    /\ last_op' = "batch"
    /\ \E ans \in EnvBatchAnswers, comp \in Comps,
          is_batch_complete \in EnvBatchComplete(batch_count + 1) :
          /\ last_ans' = ans
          /\ LET ok == DC_run_flow_tx_success(ans)
                 count == batch_count + 1
                 total == IF ok THEN total_batch + comp ELSE total_batch
                 exit == DC_loop_exit(ok, is_batch_complete, count)
             IN /\ batch_failed' = (batch_failed \/ ans \in {"error", "timeout"})
                /\ batch_exit' = exit
                /\ IF exit = "none"
                   THEN /\ pc' = "batch"
                        /\ batch_count' = count
                        /\ total_batch' = total
                        /\ UNCHANGED <<phases, loop_i>>
                   ELSE /\ pc' = DC_after_batch_loop(exit)
                        /\ phases' = Append(phases,
                              PhaseResult("processDrawBatch", total, count))
                        /\ LoopDone
                /\ batch_computations' = DC_batch_computations_append(ok, batch_computations, comp)
    /\ UNCHANGED <<config, run_num, test, attempt, ret, results, rc,
                   runs_started, start_state, rand_state, rand_issued, settled,
                   complete_state>>
    /\ InTry
    /\ PipelineStep

(* Phase 3: requestDrawRandomness; on failure "Continuing to try            *)
(* completeDraw anyway".                                                    *)
DC_requestDrawRandomness ==
    /\ driver = "DC" /\ pc = "rand"
    /\ last_op' = "rand"
    /\ rand_issued' = rand_issued + 1
    /\ settled' = FALSE
    /\ \E ans \in Answers, comp \in Comps :
          /\ last_ans' = ans
          /\ LET ok == DC_run_flow_tx_success(ans)
             IN /\ rand_state' = (IF ok THEN "ok" ELSE "failed")
                /\ phases' = (IF ok
                              THEN Append(phases, PhaseResult("requestDrawRandomness", comp, 1))
                              ELSE phases)
                /\ pc' = DC_after_randomness(ok)
    /\ batch_computations' = <<>>
    /\ UNCHANGED <<config, run_num, test, loop_i, batch_count, total_batch,
                   attempt, ret, results, rc, runs_started, start_state,
                   batch_failed, batch_exit, complete_state>>
    /\ InTry
    /\ PipelineStep

(* time.sleep(3) "Waiting for next block (randomness)" and the              *)
(* pre-completion status query.                                             *)
DC_settle ==
    /\ driver = "DC" /\ pc = "settle"
    /\ last_op' = "settle"
    /\ last_ans' = "none"
    /\ settled' = TRUE
    /\ pc' = "complete"
    /\ UNCHANGED <<config, run_num, test, locals, ret, results, rc,
                   runs_started, start_state, batch_failed, batch_exit,
                   rand_state, rand_issued, complete_state>>
    /\ InTry
    /\ PipelineStep

(* Phase 4: completePoolDraw, the aggregation, and main's runs.append(run). *)
DC_completePoolDraw ==
    /\ driver = "DC" /\ pc = "complete"
    /\ last_op' = "complete"
    /\ \E ans \in Answers, comp \in Comps :
          /\ last_ans' = ans
          /\ LET ok == DC_run_flow_tx_success(ans)
                 ps == DC_phases_after_complete(ok, phases, comp)
             IN /\ complete_state' = (IF ok THEN "ok" ELSE "failed")
                /\ NextIteration(Append(results, RunRecord(ps, "")))
    /\ UNCHANGED <<config, test, ret, runs_started, start_state, batch_failed,
                   batch_exit, rand_state, rand_issued, settled>>
    /\ InTry
    /\ PipelineStep

(* A variant that goes on to deploy whatever start_emulator returned.       *)
DC_after_start_emulator_ignoring_failure(ok) == "deploy"

(* main: if not start_emulator_with_profiling(...): return 1                    *)
DC_after_start_emulator(ok) == IF ok THEN "deploy" ELSE "return"

(* start_emulator_with_profiling: Popen and up to 30 health polls; an exception is caught and False returned. *)
DC_start_emulator_with_profiling ==
    /\ driver = "DC" /\ pc = "emulator" /\ ~skip_setup
    /\ last_op' = "emulator"
    /\ last_ans' = "none"
    /\ start_attempts' = start_attempts + 1
    /\ \E o \in {"healthy", "unhealthy", "popen_failed"} :
          LET handle == IF o = "popen_failed" THEN "none" ELSE "held"
              ok == o = "healthy"
          IN /\ IF FALSE
                THEN /\ start_result' = "raised"
                     /\ MainReturn(2)
                ELSE /\ start_result' = (IF ok THEN "ok" ELSE "failed")
                     /\ IF DC_after_start_emulator(ok) = "deploy"
                        THEN /\ pc' = "deploy"
                             /\ UNCHANGED <<run_num, results, rc, locals>>
                        ELSE MainReturn(1)
             /\ main_finally(handle)
    /\ UNCHANGED <<config, test, ret, runs_started, runhist>>
    /\ PipelineStep

(* main with --skip-setup: if not check_emulator_health(): return 1 *)
DC_check_emulator_health ==
    /\ driver = "DC" /\ pc = "emulator" /\ skip_setup
    /\ last_op' = "emulator"
    /\ last_ans' = "none"
    /\ \E ok \in BOOLEAN :
          IF ok
          THEN /\ pc' = "pool"
               /\ UNCHANGED <<run_num, results, rc, locals>>
          ELSE MainReturn(1)
    /\ UNCHANGED <<config, test, ret, runs_started, runhist>>
    /\ InTry
    /\ PipelineStep

(* main: if not deploy_contracts(): return 1 *)
DC_deploy_contracts ==
    /\ driver = "DC" /\ pc = "deploy"
    /\ last_op' = "deploy"
    /\ last_ans' = "none"
    /\ \E ok \in BOOLEAN :
          IF ok
          THEN /\ pc' = "pool"
               /\ UNCHANGED <<run_num, results, rc, locals>>
          ELSE MainReturn(1)
    /\ UNCHANGED <<config, test, ret, runs_started, runhist>>
    /\ InTry
    /\ PipelineStep

(* main: except KeyboardInterrupt: return 1, then the finally clause. *)
DC_KeyboardInterrupt ==
    /\ driver = "DC" /\ pc # "done"
    /\ last_op' = "interrupt"
    /\ last_ans' = "none"
    /\ MainReturn(1)
    /\ \E during_start \in BOOLEAN :
          /\ during_start => pc = "emulator" /\ ~skip_setup
          /\ start_attempts' = (IF during_start THEN start_attempts + 1 ELSE start_attempts)
          /\ start_result' = (IF during_start THEN "raised" ELSE start_result)
          /\ main_finally(IF during_start THEN "held" ELSE emulator_process)
    /\ UNCHANGED <<config, test, ret, runs_started, runhist>>
    /\ PipelineStep

DC_Next ==
    \/ DC_start_emulator_with_profiling
    \/ DC_check_emulator_health
    \/ DC_deploy_contracts
    \/ DC_KeyboardInterrupt
    \/ DC_setup_pool
    \/ DC_setup_simulated_users
    \/ DC_fund_lottery_pool
    \/ DC_startPoolDraw
    \/ DC_processDrawBatch
    \/ DC_requestDrawRandomness
    \/ DC_settle
    \/ DC_completePoolDraw

(* ============= benchmark/benchmark_complete_draw.py ("CD") ============== *)

(* run_flow_tx via run_command: a timeout is caught (exit code -1, empty    *)
(* stdout) and the text fallback classifies it as failed.                   *)
CD_run_flow_tx_success(ans) == ans = "sealed"

(* The phases dict of run_single_benchmark keeps name -> computation only.  *)
CD_PhaseEntry(name, comp) == PhaseResult(name, comp, 0)

(* while batch_count < 100                                                  *)
CD_loop_guard(count) == count < CD_MAX_BATCHES

CD_loop_exit(ok, is_batch_complete, count) ==
    IF ~ok THEN "failed"
    ELSE IF is_batch_complete THEN "complete"
    ELSE IF CD_loop_guard(count) THEN "none"
    ELSE "ceiling"

(* Where run_draw_phases_1_to_3 goes after the batch loop.                  *)
CD_after_batch_loop(exit) == "rand"

(* After requestDrawRandomness: on success the wait for the next block; on  *)
(* failure run_draw_phases_1_to_3 returns the dict gathered so far, and     *)
(* run_single_benchmark treats only an empty dict as "Failed in phases 1-3".*)
CD_after_randomness(ok, gathered) ==
    IF ok THEN "settle"
    ELSE IF gathered = <<>> THEN "failed13"
    ELSE "complete"

(* run_variability_test: pool_id = create_multi_winner_pool(...);           *)
(* None -> continue                                                         *)
CD_create_multi_winner_pool ==
    /\ driver = "CD" /\ pc = "pool"
    /\ BeginRun
    /\ last_op' = "pool"
    /\ last_ans' = "none"
    /\ \E ok \in BOOLEAN :
          IF ok
          THEN /\ pc' = "users"
               /\ UNCHANGED <<run_num, results, rc, locals>>
          ELSE NextIteration(results)
    /\ UNCHANGED <<config, test, ret>>
    /\ InTry
    /\ PipelineStep

(* run_single_benchmark: create_users; on failure the result carries        *)
(* error = "Failed to create users" and is appended to all_results.         *)
CD_create_users ==
    /\ driver = "CD" /\ pc = "users"
    /\ last_op' = "users"
    /\ last_ans' = "none"
    /\ \E ok \in BOOLEAN :
          IF ok
          THEN /\ pc' = "fund"
               /\ UNCHANGED <<run_num, results, rc, locals>>
          ELSE NextIteration(Append(results, RunRecord(<<>>, "Failed to create users")))
    /\ UNCHANGED <<config, test, ret, runs_started, runhist>>
    /\ InTry
    /\ PipelineStep

(* run_draw_phases_1_to_3: fund_lottery_pool; on failure the empty dict is  *)
(* returned and run_single_benchmark reports "Failed in phases 1-3".        *)
CD_fund_lottery_pool ==
    /\ driver = "CD" /\ pc = "fund"
    /\ last_op' = "fund"
    /\ last_ans' = "none"
    /\ \E ok \in BOOLEAN :
          IF ok
          THEN /\ pc' = "start"
               /\ UNCHANGED <<run_num, results, rc, locals>>
          ELSE NextIteration(Append(results, RunRecord(<<>>, "Failed in phases 1-3")))
    /\ UNCHANGED <<config, test, ret, runs_started, runhist>>
    /\ InTry
    /\ PipelineStep

(* Phase 1: startPoolDraw; on failure the empty dict is returned.           *)
CD_startPoolDraw ==
    /\ driver = "CD" /\ pc = "start"
    /\ last_op' = "start"
    /\ \E ans \in Answers, comp \in Comps :
          /\ last_ans' = ans
          /\ IF CD_run_flow_tx_success(ans)
             THEN /\ start_state' = "ok"
                  /\ phases' = Append(phases, CD_PhaseEntry("startPoolDraw", comp))
                  /\ batch_count' = 0
                  /\ total_batch' = 0
                  /\ batch_computations' = <<>>
                  /\ pc' = "batch"
                  /\ UNCHANGED <<run_num, results, rc, loop_i, attempt>>
             ELSE /\ start_state' = "failed"
                  /\ NextIteration(Append(results, RunRecord(<<>>, "Failed in phases 1-3")))
    /\ UNCHANGED <<config, test, ret, runs_started, batch_failed, batch_exit,
                   rand_state, rand_issued, settled, complete_state>>
    /\ InTry
    /\ PipelineStep

(* Phase 2: one iteration of  while batch_count < 100;  a failed batch      *)
(* breaks the loop, after which results['processDrawBatch'] is set.         *)
CD_processDrawBatch ==
    /\ driver = "CD" /\ pc = "batch"
    /\ CD_loop_guard(batch_count)
    /\ last_op' = "batch"
    /\ \E ans \in Answers, comp \in Comps, is_batch_complete \in BOOLEAN :
          /\ last_ans' = ans
          /\ LET ok == CD_run_flow_tx_success(ans)
                 count == batch_count + 1
                 total == IF ok THEN total_batch + comp ELSE total_batch
                 exit == CD_loop_exit(ok, is_batch_complete, count)
             IN /\ batch_failed' = (batch_failed \/ ans \in {"error", "timeout"})
                /\ batch_exit' = exit
                /\ IF exit = "none"
                   THEN /\ pc' = "batch"
                        /\ batch_count' = count
                        /\ total_batch' = total
                        /\ batch_computations' = batch_computations
                        /\ UNCHANGED <<phases, loop_i>>
                   ELSE /\ pc' = CD_after_batch_loop(exit)
                        /\ phases' = Append(phases, CD_PhaseEntry("processDrawBatch", total))
                        /\ LoopDone
                        /\ batch_computations' = batch_computations
    /\ UNCHANGED <<config, run_num, test, attempt, ret, results, rc,
                   runs_started, start_state, rand_state, rand_issued, settled,
                   complete_state>>
    /\ InTry
    /\ PipelineStep

(* Phase 3: requestDrawRandomness.                                          *)
CD_requestDrawRandomness ==
    /\ driver = "CD" /\ pc = "rand"
    /\ last_op' = "rand"
    /\ rand_issued' = rand_issued + 1
    /\ settled' = FALSE
    /\ \E ans \in Answers, comp \in Comps :
          /\ last_ans' = ans
          /\ LET ok == CD_run_flow_tx_success(ans)
             IN /\ rand_state' = (IF ok THEN "ok" ELSE "failed")
                /\ phases' = (IF ok
                              THEN Append(phases, CD_PhaseEntry("requestDrawRandomness", comp))
                              ELSE phases)
                /\ pc' = CD_after_randomness(ok, phases)
    /\ UNCHANGED <<config, run_num, test, loop_i, batch_count, total_batch, batch_computations,
                   attempt, ret, results, rc, runs_started, start_state,
                   batch_failed, batch_exit, complete_state>>
    /\ InTry
    /\ PipelineStep

(* time.sleep(3) "Waiting for next block", then return results.             *)
CD_settle ==
    /\ driver = "CD" /\ pc = "settle"
    /\ last_op' = "settle"
    /\ last_ans' = "none"
    /\ settled' = TRUE
    /\ pc' = "complete"
    /\ UNCHANGED <<config, run_num, test, locals, ret, results, rc,
                   runs_started, start_state, batch_failed, batch_exit,
                   rand_state, rand_issued, complete_state>>
    /\ InTry
    /\ PipelineStep

(* run_complete_draw_with_profiling and the rest of run_single_benchmark:   *)
(* a failed completePoolDraw is recorded with computation 0; the result is  *)
(* appended to all_results.                                                 *)
CD_completePoolDraw ==
    /\ driver = "CD" /\ pc = "complete"
    /\ last_op' = "complete"
    /\ \E ans \in Answers, comp \in Comps :
          /\ last_ans' = ans
          /\ LET ok == CD_run_flow_tx_success(ans)
                 c == IF ok THEN comp ELSE 0
                 ps == Append(phases, CD_PhaseEntry("completePoolDraw", c))
             IN /\ complete_state' = (IF ok THEN "ok" ELSE "failed")
                /\ NextIteration(Append(results, RunRecord(ps, "")))
    /\ UNCHANGED <<config, test, ret, runs_started, start_state, batch_failed,
                   batch_exit, rand_state, rand_issued, settled>>
    /\ InTry
    /\ PipelineStep

(* A variant that goes on to deploy whatever start_emulator returned.       *)
CD_after_start_emulator_ignoring_failure(ok) == "deploy"

(* main: if not start_emulator(...): return 1                    *)
CD_after_start_emulator(ok) == IF ok THEN "deploy" ELSE "return"

(* start_emulator: Popen and up to 30 health polls; an exception is caught and False returned. *)
CD_start_emulator ==
    /\ driver = "CD" /\ pc = "emulator" /\ ~skip_setup
    /\ last_op' = "emulator"
    /\ last_ans' = "none"
    /\ start_attempts' = start_attempts + 1
    /\ \E o \in {"healthy", "unhealthy", "popen_failed"} :
          LET handle == IF o = "popen_failed" THEN "none" ELSE "held"
              ok == o = "healthy"
          IN /\ IF FALSE
                THEN /\ start_result' = "raised"
                     /\ MainReturn(2)
                ELSE /\ start_result' = (IF ok THEN "ok" ELSE "failed")
                     /\ IF CD_after_start_emulator(ok) = "deploy"
                        THEN /\ pc' = "deploy"
                             /\ UNCHANGED <<run_num, results, rc, locals>>
                        ELSE MainReturn(1)
             /\ main_finally(handle)
    /\ UNCHANGED <<config, test, ret, runs_started, runhist>>
    /\ PipelineStep

(* main: if not deploy_contracts(): return 1 *)
CD_deploy_contracts ==
    /\ driver = "CD" /\ pc = "deploy"
    /\ last_op' = "deploy"
    /\ last_ans' = "none"
    /\ \E ok \in BOOLEAN :
          IF ok
          THEN /\ pc' = "setup"
               /\ UNCHANGED <<run_num, results, rc, locals>>
          ELSE MainReturn(1)
    /\ UNCHANGED <<config, test, ret, runs_started, runhist>>
    /\ InTry
    /\ PipelineStep

(* main: if not setup_base_infrastructure(): return 1 *)
CD_setup_base_infrastructure ==
    /\ driver = "CD" /\ pc = "setup"
    /\ last_op' = "setup"
    /\ last_ans' = "none"
    /\ \E ok \in BOOLEAN :
          IF ok
          THEN /\ pc' = "pool"
               /\ UNCHANGED <<run_num, results, rc, locals>>
          ELSE MainReturn(1)
    /\ UNCHANGED <<config, test, ret, runs_started, runhist>>
    /\ InTry
    /\ PipelineStep

(* main: except KeyboardInterrupt: return 1, then the finally clause. *)
CD_KeyboardInterrupt ==
    /\ driver = "CD" /\ pc # "done"
    /\ last_op' = "interrupt"
    /\ last_ans' = "none"
    /\ MainReturn(1)
    /\ \E during_start \in BOOLEAN :
          /\ during_start => pc = "emulator" /\ ~skip_setup
          /\ start_attempts' = (IF during_start THEN start_attempts + 1 ELSE start_attempts)
          /\ start_result' = (IF during_start THEN "raised" ELSE start_result)
          /\ main_finally(IF during_start THEN "held" ELSE emulator_process)
    /\ UNCHANGED <<config, test, ret, runs_started, runhist>>
    /\ PipelineStep

CD_Next ==
    \/ CD_start_emulator
    \/ CD_deploy_contracts
    \/ CD_setup_base_infrastructure
    \/ CD_KeyboardInterrupt
    \/ CD_create_multi_winner_pool
    \/ CD_create_users
    \/ CD_fund_lottery_pool
    \/ CD_startPoolDraw
    \/ CD_processDrawBatch
    \/ CD_requestDrawRandomness
    \/ CD_settle
    \/ CD_completePoolDraw

(* ============== benchmark/benchmark_lazy_users.py ("LU") ================ *)

(* run_flow_tx calls subprocess.run(..., timeout=120) outside any try:      *)
(* subprocess.TimeoutExpired leaves run_flow_tx and every caller up to main,*)
(* whose try has a finally clause only.                                     *)
LU_run_flow_tx_raises(ans) == ans = "timeout"

LU_run_flow_tx_success(ans) == ans = "sealed"

(* A variant in which the "already complete" pattern never matches.         *)
LU_already_complete_never(ans) == FALSE

(* "batch processing already complete" in output.lower() or                 *)
(* "already complete" in output.lower()                                     *)
LU_already_complete(ans) == ans = "already"

(* for _ in range(100): the next index exists                               *)
LU_loop_guard(i) == i < LU_MAX_BATCHES

(* What one iteration of the batch loop of benchmark_process_draw_batch     *)
(* does with the answer: "none" goes on, "return_none" is  return None.     *)
LU_loop_exit(ans, remaining_zero, i) ==
    IF ~LU_run_flow_tx_success(ans)
    THEN (IF LU_already_complete(ans) THEN "already" ELSE "return_none")
    ELSE IF remaining_zero THEN "complete"
    ELSE IF LU_loop_guard(i) THEN "none"
    ELSE "ceiling"

(* The value benchmark_process_draw_batch returns after the loop.           *)
LU_batch_return(exit, total) == IF exit = "return_none" THEN None ELSE total

(* for attempt in range(3)                                                  *)
LU_attempt_guard(a) == a < LU_COMPLETE_ATTEMPTS

(* main: pool_id = setup_pool(); None -> return 1                           *)
LU_setup_pool ==
    /\ driver = "LU" /\ pc = "pool"
    /\ BeginRun
    /\ last_op' = "pool"
    /\ last_ans' = "none"
    /\ \E ans \in {"ok", "fail", "timeout"} :
          CASE ans = "ok" -> /\ pc' = "users"
                             /\ UNCHANGED <<run_num, results, rc, locals>>
            [] ans = "fail" -> MainReturn(1)
            [] OTHER -> MainReturn(2)
    /\ UNCHANGED <<config, test, ret>>
    /\ InTry
    /\ PipelineStep

(* main: create_users(pool_id, user_count); False -> return 1               *)
LU_create_users ==
    /\ driver = "LU" /\ pc = "users"
    /\ last_op' = "users"
    /\ last_ans' = "none"
    /\ \E ans \in {"ok", "fail", "timeout"} :
          CASE ans = "ok" -> /\ pc' = "fund"
                             /\ UNCHANGED <<run_num, results, rc, locals>>
            [] ans = "fail" -> MainReturn(1)
            [] OTHER -> MainReturn(2)
    /\ UNCHANGED <<config, test, ret, runs_started, runhist>>
    /\ InTry
    /\ PipelineStep

(* main: run_flow_tx(TX_FUND_PRIZE_POOL, ...); failure -> return 1          *)
LU_fund_prize_pool ==
    /\ driver = "LU" /\ pc = "fund"
    /\ last_op' = "fund"
    /\ \E ans \in Answers :
          /\ last_ans' = ans
          /\ IF LU_run_flow_tx_raises(ans) THEN MainReturn(2)
             ELSE IF LU_run_flow_tx_success(ans)
             THEN /\ pc' = "start"
                  /\ UNCHANGED <<run_num, results, rc, locals>>
             ELSE MainReturn(1)
    /\ UNCHANGED <<config, test, ret, runs_started, runhist>>
    /\ InTry
    /\ PipelineStep

(* benchmark_process_draw_batch: startDraw; failure -> return None, and     *)
(* main returns 1.  The second call (test 2) starts the draw of a new round.*)
LU_startDraw ==
    /\ driver = "LU" /\ pc = "start"
    /\ last_op' = "start"
    /\ batch_failed' = FALSE
    /\ batch_exit' = "none"
    /\ rand_state' = "none"
    /\ rand_issued' = 0
    /\ settled' = FALSE
    /\ complete_state' = "none"
    /\ runs_started' = (IF test = 1 THEN runs_started ELSE runs_started + 1)
    /\ \E ans \in Answers :
          /\ last_ans' = ans
          /\ IF LU_run_flow_tx_raises(ans)
             THEN /\ start_state' = "failed"
                  /\ ret' = None
                  /\ MainReturn(2)
             ELSE IF LU_run_flow_tx_success(ans)
             THEN /\ start_state' = "ok"
                  /\ ret' = None
                  /\ total_batch' = 0
                  /\ batch_computations' = <<>>
                  /\ batch_count' = 0
                  /\ loop_i' = 0
                  /\ pc' = "batch"
                  /\ UNCHANGED <<run_num, results, rc, attempt, phases>>
             ELSE /\ start_state' = "failed"
                  /\ ret' = None
                  /\ MainReturn(1)
    /\ UNCHANGED <<config, test>>
    /\ InTry
    /\ PipelineStep

(* benchmark_process_draw_batch: one iteration of  for _ in range(100);     *)
(* after the loop the function returns total_batch_comp and main goes on    *)
(* (test 1: to requestDrawRandomness; test 2: to the comparison, return 0). *)
LU_processDrawBatch ==
    /\ driver = "LU" /\ pc = "batch"
    /\ LU_loop_guard(loop_i)
    /\ last_op' = "batch"
    /\ \E ans \in Answers, comp \in Comps, remaining_zero \in BOOLEAN :
          /\ last_ans' = ans
          /\ IF LU_run_flow_tx_raises(ans)
             THEN /\ batch_failed' = TRUE
                  /\ batch_exit' = "raised"
                  /\ ret' = None
                  /\ MainReturn(2)
             ELSE
             LET ok == LU_run_flow_tx_success(ans)
                 i == loop_i + 1
                 total == IF ok THEN total_batch + comp ELSE total_batch
                 count == IF ok THEN batch_count + 1 ELSE batch_count
                 exit == LU_loop_exit(ans, remaining_zero, i)
             IN /\ batch_failed' = (batch_failed \/ exit = "return_none")
                /\ batch_exit' = (IF exit = "return_none" THEN "failed" ELSE exit)
                /\ CASE exit = "none" ->
                          /\ pc' = "batch"
                          /\ loop_i' = i
                          /\ batch_count' = count
                          /\ total_batch' = total
                          /\ batch_computations' = batch_computations
                          /\ UNCHANGED <<ret, run_num, results, rc, attempt, phases>>
                     [] exit = "return_none" ->
                          /\ ret' = LU_batch_return(exit, total)
                          /\ MainReturn(1)
                     [] OTHER ->
                          /\ ret' = LU_batch_return(exit, total)
                          /\ LoopDone
                          /\ batch_computations' = batch_computations
                          /\ IF test = 1
                             THEN /\ pc' = "rand"
                                  /\ UNCHANGED <<run_num, results, rc, attempt, phases>>
                             ELSE /\ pc' = "done"
                                  /\ rc' = 0
                                  /\ UNCHANGED <<run_num, results, attempt, phases>>
    /\ UNCHANGED <<config, test, runs_started, start_state, rand_state,
                   rand_issued, settled, complete_state>>
    /\ InTry
    /\ PipelineStep

(* main: requestDrawRandomness; failure -> return 1                         *)
LU_requestDrawRandomness ==
    /\ driver = "LU" /\ pc = "rand"
    /\ last_op' = "rand"
    /\ rand_issued' = rand_issued + 1
    /\ settled' = FALSE
    /\ \E ans \in Answers :
          /\ last_ans' = ans
          /\ IF LU_run_flow_tx_raises(ans)
             THEN /\ rand_state' = "failed"
                  /\ MainReturn(2)
             ELSE IF LU_run_flow_tx_success(ans)
             THEN /\ rand_state' = "ok"
                  /\ pc' = "settle"
                  /\ UNCHANGED <<run_num, results, rc, locals>>
             ELSE /\ rand_state' = "failed"
                  /\ MainReturn(1)
    /\ UNCHANGED <<config, test, ret, runs_started, start_state, batch_failed,
                   batch_exit, complete_state>>
    /\ InTry
    /\ PipelineStep

(* main: time.sleep(4), randomness is not available in the same block       *)
LU_settle ==
    /\ driver = "LU" /\ pc = "settle"
    /\ last_op' = "settle"
    /\ last_ans' = "none"
    /\ settled' = TRUE
    /\ pc' = "complete"
    /\ attempt' = 0
    /\ UNCHANGED <<config, run_num, test, loop_i, batch_count, total_batch, batch_computations,
                   phases, ret, results, rc, runs_started, start_state,
                   batch_failed, batch_exit, rand_state, rand_issued,
                   complete_state>>
    /\ InTry
    /\ PipelineStep

(* main: one attempt of  for attempt in range(3): completeDraw;  a failed   *)
(* attempt sleeps 2 s and the loop goes on; the else clause returns 1.      *)
LU_completeDraw ==
    /\ driver = "LU" /\ pc = "complete"
    /\ LU_attempt_guard(attempt)
    /\ last_op' = "complete"
    /\ \E ans \in Answers :
          /\ last_ans' = ans
          /\ IF LU_run_flow_tx_raises(ans)
             THEN /\ complete_state' = "failed"
                  /\ test' = test
                  /\ MainReturn(2)
             ELSE IF LU_run_flow_tx_success(ans)
             THEN /\ complete_state' = "ok"
                  /\ test' = 2
                  /\ pc' = "start"
                  /\ attempt' = 0
                  /\ UNCHANGED <<run_num, results, rc, loop_i, batch_count,
                                 total_batch, batch_computations, phases>>
             ELSE /\ complete_state' = "failed"
                  /\ test' = test
                  /\ IF LU_attempt_guard(attempt + 1)
                     THEN /\ attempt' = attempt + 1
                          /\ pc' = "complete"
                          /\ UNCHANGED <<run_num, results, rc, loop_i, batch_count,
                                         total_batch, batch_computations, phases>>
                     ELSE MainReturn(1)
    /\ UNCHANGED <<config, ret, runs_started, start_state, batch_failed,
                   batch_exit, rand_state, rand_issued, settled>>
    /\ InTry
    /\ PipelineStep

(* A variant that goes on to deploy whatever start_emulator returned.       *)
LU_after_start_emulator_ignoring_failure(ok) == "deploy"

(* main: if not start_emulator(...): return 1                    *)
LU_after_start_emulator(ok) == IF ok THEN "deploy" ELSE "return"

(* start_emulator: Popen and up to 30 polls, both outside any try: an exception leaves main. *)
LU_start_emulator ==
    /\ driver = "LU" /\ pc = "emulator" /\ ~skip_setup
    /\ last_op' = "emulator"
    /\ last_ans' = "none"
    /\ start_attempts' = start_attempts + 1
    /\ \E o \in {"healthy", "unhealthy", "popen_failed", "poll_timeout"} :
          LET handle == IF o = "popen_failed" THEN "none" ELSE "held"
              ok == o = "healthy"
          IN /\ IF o \in {"popen_failed", "poll_timeout"}
                THEN /\ start_result' = "raised"
                     /\ MainReturn(2)
                ELSE /\ start_result' = (IF ok THEN "ok" ELSE "failed")
                     /\ IF LU_after_start_emulator(ok) = "deploy"
                        THEN /\ pc' = "deploy"
                             /\ UNCHANGED <<run_num, results, rc, locals>>
                        ELSE MainReturn(1)
             /\ main_finally(handle)
    /\ UNCHANGED <<config, test, ret, runs_started, runhist>>
    /\ PipelineStep

(* main: flow deps install (timeout 60) and deploy_contracts (timeout 120), no try: a timeout leaves main *)
LU_deploy_contracts ==
    /\ driver = "LU" /\ pc = "deploy"
    /\ last_op' = "deploy"
    /\ last_ans' = "none"
    /\ \E o \in {"ok", "fail", "timeout"} :
          CASE o = "ok" -> /\ pc' = "pool"
                           /\ UNCHANGED <<run_num, results, rc, locals>>
            [] o = "fail" -> MainReturn(1)
            [] OTHER -> MainReturn(2)
    /\ UNCHANGED <<config, test, ret, runs_started, runhist>>
    /\ InTry
    /\ PipelineStep

(* main has no except clause: KeyboardInterrupt leaves main through the finally clause. *)
LU_KeyboardInterrupt ==
    /\ driver = "LU" /\ pc # "done"
    /\ last_op' = "interrupt"
    /\ last_ans' = "none"
    /\ MainReturn(2)
    /\ \E during_start \in BOOLEAN :
          /\ during_start => pc = "emulator" /\ ~skip_setup
          /\ start_attempts' = (IF during_start THEN start_attempts + 1 ELSE start_attempts)
          /\ start_result' = (IF during_start THEN "raised" ELSE start_result)
          /\ main_finally(IF during_start THEN "held" ELSE emulator_process)
    /\ UNCHANGED <<config, test, ret, runs_started, runhist>>
    /\ PipelineStep

LU_Next ==
    \/ LU_start_emulator
    \/ LU_deploy_contracts
    \/ LU_KeyboardInterrupt
    \/ LU_setup_pool
    \/ LU_create_users
    \/ LU_fund_prize_pool
    \/ LU_startDraw
    \/ LU_processDrawBatch
    \/ LU_requestDrawRandomness
    \/ LU_settle
    \/ LU_completeDraw

(* ==================== benchmark_computation.py ("BC") =================== *)

(* run_command calls subprocess.run(..., timeout=300) outside any try.      *)
BC_run_transaction_raises(ans) == ans = "timeout"

BC_run_transaction_success(ans) == ans = "sealed"

(* run_transaction: the computation is looked up only  if tx_id and success;*)
(* otherwise it stays None.                                                 *)
BC_computation(ans, reported) ==
    IF BC_run_transaction_success(ans) THEN reported ELSE None

(* result.x_cu = tx.computation or 0                                        *)
BC_or_zero(c) == IF c = None THEN 0 ELSE c

(* if batch_result.computation:  (neither None nor 0)                       *)
BC_truthy(c) == c # None /\ c # 0

BC_max_batches == (user_count \div batch_size) + BC_SAFETY_MARGIN

(* while batch_num < max_batches                                            *)
BC_loop_guard(n) == n < BC_max_batches

(* The batch loop of run_multi_user_benchmark does not look at              *)
(* batch_result.success: it ends on is_batch_complete or at the ceiling.    *)
BC_loop_exit(ok, is_batch_complete, n) ==
    IF is_batch_complete THEN "complete"
    ELSE IF BC_loop_guard(n) THEN "none"
    ELSE "ceiling"

(* run_multi_user_benchmark, steps 1-3: create pool, set up the collection, *)
(* batch deposits; no result is checked.                                    *)
BC_create_pool ==
    /\ driver = "BC" /\ pc = "pool"
    /\ BeginRun
    /\ last_op' = "pool"
    /\ \E ans \in Answers :
          /\ last_ans' = ans
          /\ IF BC_run_transaction_raises(ans) THEN MainReturn(2)
             ELSE /\ pc' = "fund"
                  /\ UNCHANGED <<run_num, results, rc, locals>>
    /\ UNCHANGED <<config, test, ret>>
    /\ InTry
    /\ PipelineStep

(* Step 4: fund the lottery pool (unchecked); step 5: wait_for_draw_ready,  *)
(* False -> return result, which main appends to results.                   *)
BC_fund_and_wait ==
    /\ driver = "BC" /\ pc = "fund"
    /\ last_op' = "fund"
    /\ \E ans \in Answers, ready \in BOOLEAN :
          /\ last_ans' = ans
          /\ IF BC_run_transaction_raises(ans) THEN MainReturn(2)
             ELSE IF ready
             THEN /\ pc' = "start"
                  /\ UNCHANGED <<run_num, results, rc, locals>>
             ELSE NextIteration(Append(results, RunRecord(<<>>, "")))
    /\ UNCHANGED <<config, test, ret, runs_started, runhist>>
    /\ InTry
    /\ PipelineStep

(* Step 6: start_draw; start_draw_cu is set, then failure -> return result. *)
BC_startDraw ==
    /\ driver = "BC" /\ pc = "start"
    /\ last_op' = "start"
    /\ \E ans \in Answers, reported \in Comps \cup {None} :
          /\ last_ans' = ans
          /\ LET cu == BC_or_zero(BC_computation(ans, reported))
                 ps == Append(phases, PhaseResult("startDraw", cu, 1))
             IN IF BC_run_transaction_raises(ans)
                THEN /\ start_state' = "failed"
                     /\ MainReturn(2)
                ELSE IF BC_run_transaction_success(ans)
                THEN /\ start_state' = "ok"
                     /\ phases' = ps
                     /\ loop_i' = 0
                     /\ batch_count' = 0
                     /\ total_batch' = 0
                     /\ batch_computations' = <<>>
                     /\ pc' = "batch"
                     /\ UNCHANGED <<run_num, results, rc, attempt>>
                ELSE /\ start_state' = "failed"
                     /\ NextIteration(Append(results, RunRecord(ps, "")))
    /\ UNCHANGED <<config, test, ret, runs_started, batch_failed, batch_exit,
                   rand_state, rand_issued, settled, complete_state>>
    /\ InTry
    /\ PipelineStep

(* Step 7: one iteration of  while batch_num < max_batches.                 *)
BC_processDrawBatch ==
    /\ driver = "BC" /\ pc = "batch"
    /\ BC_loop_guard(loop_i)
    /\ last_op' = "batch"
    /\ \E ans \in Answers, reported \in Comps \cup {None},
          is_batch_complete \in BOOLEAN :
          /\ last_ans' = ans
          /\ IF BC_run_transaction_raises(ans)
             THEN /\ batch_failed' = TRUE
                  /\ batch_exit' = "raised"
                  /\ MainReturn(2)
             ELSE
             LET ok == BC_run_transaction_success(ans)
                 c == BC_computation(ans, reported)
                 total == IF BC_truthy(c) THEN total_batch + c ELSE total_batch
                 count == IF BC_truthy(c) THEN batch_count + 1 ELSE batch_count
                 n == loop_i + 1
                 exit == BC_loop_exit(ok, is_batch_complete, n)
             IN /\ batch_failed' = (batch_failed \/ ans = "error")
                /\ batch_exit' = exit
                /\ IF exit = "none"
                   THEN /\ pc' = "batch"
                        /\ loop_i' = n
                        /\ batch_count' = count
                        /\ total_batch' = total
                        /\ batch_computations' = batch_computations
                        /\ UNCHANGED <<phases>>
                   ELSE /\ pc' = "rand"
                        /\ phases' = Append(phases,
                              PhaseResult("processDrawBatch", total, count))
                        /\ LoopDone
                        /\ batch_computations' = batch_computations
                /\ UNCHANGED <<run_num, results, rc, attempt>>
    /\ UNCHANGED <<config, test, ret, runs_started, start_state, rand_state,
                   rand_issued, settled, complete_state>>
    /\ InTry
    /\ PipelineStep

(* Step 8: request randomness; the result is not checked.                   *)
BC_requestDrawRandomness ==
    /\ driver = "BC" /\ pc = "rand"
    /\ last_op' = "rand"
    /\ rand_issued' = rand_issued + 1
    /\ settled' = FALSE
    /\ \E ans \in Answers, reported \in Comps \cup {None} :
          /\ last_ans' = ans
          /\ IF BC_run_transaction_raises(ans)
             THEN /\ rand_state' = "failed"
                  /\ MainReturn(2)
             ELSE /\ rand_state' = (IF BC_run_transaction_success(ans) THEN "ok" ELSE "failed")
                  /\ phases' = Append(phases, PhaseResult("requestDrawRandomness",
                                         BC_or_zero(BC_computation(ans, reported)), 1))
                  /\ pc' = "settle"
                  /\ UNCHANGED <<run_num, results, rc, loop_i, batch_count,
                                 total_batch, batch_computations, attempt>>
    /\ UNCHANGED <<config, test, ret, runs_started, start_state, batch_failed,
                   batch_exit, complete_state>>
    /\ InTry
    /\ PipelineStep

(* Step 9: time.sleep(3) "Waiting for randomness block"                     *)
BC_settle ==
    /\ driver = "BC" /\ pc = "settle"
    /\ last_op' = "settle"
    /\ last_ans' = "none"
    /\ settled' = TRUE
    /\ pc' = "complete"
    /\ UNCHANGED <<config, run_num, test, locals, ret, results, rc,
                   runs_started, start_state, batch_failed, batch_exit,
                   rand_state, rand_issued, complete_state>>
    /\ InTry
    /\ PipelineStep

(* Step 9: complete_draw, return result; main appends it to results.        *)
BC_completeDraw ==
    /\ driver = "BC" /\ pc = "complete"
    /\ last_op' = "complete"
    /\ \E ans \in Answers, reported \in Comps \cup {None} :
          /\ last_ans' = ans
          /\ IF BC_run_transaction_raises(ans)
             THEN /\ complete_state' = "failed"
                  /\ MainReturn(2)
             ELSE LET ps == Append(phases, PhaseResult("completeDraw",
                                     BC_or_zero(BC_computation(ans, reported)), 1))
                  IN /\ complete_state' = (IF BC_run_transaction_success(ans)
                                           THEN "ok" ELSE "failed")
                     /\ NextIteration(Append(results, RunRecord(ps, "")))
    /\ UNCHANGED <<config, test, ret, runs_started, start_state, batch_failed,
                   batch_exit, rand_state, rand_issued, settled>>
    /\ InTry
    /\ PipelineStep

BC_Next ==
    \/ BC_create_pool
    \/ BC_fund_and_wait
    \/ BC_startDraw
    \/ BC_processDrawBatch
    \/ BC_requestDrawRandomness
    \/ BC_settle
    \/ BC_completeDraw

(* run_full_draw_benchmark against a contract that counts participants:    *)
(* Scenario A (50 / 50), Scenario B (120 / 50) and the small cases.         *)
InitCounting ==
    /\ driver = "DC"
    /\ \E sizes \in ((1 .. MaxUsers) \X (1 .. MaxBatch)) \cup {<<50, 50>>, <<120, 50>>} :
          /\ user_count = sizes[1]
          /\ batch_size = sizes[2]
    /\ skip_setup \in BOOLEAN
    /\ env = "counting"
    /\ num_runs = 1
    /\ comp_max = MaxComp
    /\ PipelineStart
    /\ NoLimit
    /\ NoAnalysis
    /\ NoReport
    /\ NoInvocation
    /\ NoExt

Next ==
    \/ DC_Next
    \/ CD_Next
    \/ LU_Next
    \/ BC_Next

Spec == Init /\ [][Next]_vars

SpecRuns == InitRuns /\ [][Next]_vars

SpecCounting == InitCounting /\ [][DC_Next]_vars

(* ========== benchmark_computation.py: find_batch_limit ("FL") =========== *)

(* The loads and costs of Scenario C of the specification.                  *)
ScenarioLoads == {3075, 3100}
ScenarioStep == 25
ScenarioCost == 9948

(* What the emulator can report for a probe.                                *)
FL_Costs == (0 .. MaxCost) \cup {ScenarioCost}

(* main --find-limit: find_batch_limit(args.limit_start, args.limit_step,   *)
(* args.limit_max) is called once.                                          *)
InitLimit ==
    /\ driver = "BC"
    /\ user_count = 1
    /\ batch_size = 1
    /\ num_runs = 1
    /\ comp_max = 0
    /\ AnyEnvironment
    /\ PipelineInit
    /\ NoAnalysis
    /\ NoReport
    /\ NoInvocation
    /\ NoExt
    /\ fl_pc = "setup"
    /\ \E scenario \in BOOLEAN :
          IF scenario
          THEN /\ start_users = 3075
               /\ step = ScenarioStep
               /\ max_users \in ScenarioLoads
          ELSE /\ start_users \in 1 .. MaxLoad
               /\ step \in 1 .. MaxStep
               /\ max_users \in 1 .. MaxLoad
    /\ fl_probes = <<>>
    /\ fl_results = <<>>
    /\ fl_ret = [kind |-> "none"]

(* test_sizes = [max_users]                                                 *)
test_sizes == <<max_users>>

(* A variant that takes every successful probe for a sample.                *)
FL_is_sample_unmeasured(success, cu) == success

(* if cu is not None and cu > 0 and batch_result.success                    *)
FL_is_sample(success, cu) == cu # None /\ cu > 0 /\ success

(* What one iteration of  for batch_size in test_sizes  does after the      *)
(* probe: append a sample, break (every failure breaks), or only print      *)
(* "Could not measure CU".                                                  *)
FL_probe_outcome(success, cu) ==
    IF FL_is_sample(success, cu) THEN "sample"
    ELSE IF ~success THEN "break"
    ELSE "unmeasured"

(* sum(r["per_user"] for r in results), per_user = cu / batch_size, as the  *)
(* fraction <<numerator, denominator>>.                                     *)
RECURSIVE FL_sum_per_user(_)
FL_sum_per_user(rs) ==
    IF rs = <<>> THEN <<0, 1>>
    ELSE LET rest == FL_sum_per_user(Tail(rs))
             r == Head(rs)
         IN <<r.computation * rest[2] + rest[1] * r.batch_size,
              r.batch_size * rest[2]>>

(* A variant that extrapolates to a limit of 10000.                         *)
FL_theoretical_max_rounded_limit(rs) ==
    LET sum == FL_sum_per_user(rs)
    IN IF sum[1] > 0 THEN (10000 * sum[2] * Len(rs)) \div sum[1] ELSE 0

(* avg_per_user = sum(...) / len(results);                                  *)
(* theoretical_max = int(9999 / avg_per_user) if avg_per_user > 0 else 0    *)
FL_theoretical_max(rs) ==
    LET sum == FL_sum_per_user(rs)
    IN IF sum[1] > 0 THEN (CU_LIMIT * sum[2] * Len(rs)) \div sum[1] ELSE 0

(* A variant whose margin is applied the wrong way round.                   *)
FL_safe_max_inverted(theoretical_max) == (theoretical_max * 10) \div SAFE_TENTHS

(* safe_max = int(theoretical_max * 0.9)                                    *)
FL_safe_max(theoretical_max) == (theoretical_max * SAFE_TENTHS) \div 10

(* The summary of find_batch_limit and the dict it returns.                 *)
FL_summary(rs) ==
    IF rs # <<>>
    THEN [kind |-> "estimate",
          theoretical_max |-> FL_theoretical_max(rs),
          recommended_max |-> FL_safe_max(FL_theoretical_max(rs)),
          results |-> rs]
    ELSE [kind |-> "error", error |-> "No successful batches"]

FL_unchanged == UNCHANGED <<config, pc, run_num, test, locals, ret, results, rc,
                            runs_started, last_op, last_ans, runhist,
                            emulator_process, start_result, start_attempts,
                            stop_called, results_file,
                            va_vars, rp_vars, tx_vars, ext_vars, start_users, step,
                            max_users>>

(* Steps 1-2 and the start of the draw: pool, collection, receiver          *)
(* accounts, funding, wait_for_draw_ready, start_draw.                      *)
FL_setup ==
    /\ fl_pc = "setup"
    /\ \E o \in {"ok", "no_receivers", "not_ready", "start_failed", "raised"} :
          CASE o = "ok" -> /\ fl_pc' = "probe"
                           /\ fl_ret' = fl_ret
            [] o = "no_receivers" ->
                  /\ fl_pc' = "returned"
                  /\ fl_ret' = [kind |-> "error", error |-> "Failed to create receivers"]
            [] o = "not_ready" ->
                  /\ fl_pc' = "returned"
                  /\ fl_ret' = [kind |-> "error", error |-> "Draw not ready"]
            [] o = "start_failed" ->
                  /\ fl_pc' = "returned"
                  /\ fl_ret' = [kind |-> "error", error |-> "Start draw failed"]
            [] OTHER -> /\ fl_pc' = "raised"
                        /\ fl_ret' = fl_ret
    /\ UNCHANGED <<fl_probes, fl_results>>
    /\ FL_unchanged

(* One iteration of  for batch_size in test_sizes:  run_batch_test and the  *)
(* classification of its result.                                            *)
FL_run_batch_test ==
    /\ fl_pc = "probe"
    /\ Len(fl_probes) < Len(test_sizes)
    /\ \E ans \in Answers, reported \in FL_Costs \cup {None} :
          LET size == test_sizes[Len(fl_probes) + 1]
              success == BC_run_transaction_success(ans)
              cu == BC_computation(ans, reported)
              outcome == FL_probe_outcome(success, cu)
              probes == Append(fl_probes,
                          [load |-> size, success |-> success, computation |-> cu])
          IN IF BC_run_transaction_raises(ans)
             THEN /\ fl_pc' = "raised"
                  /\ fl_probes' = Append(fl_probes,
                          [load |-> size, success |-> FALSE, computation |-> None])
                  /\ UNCHANGED fl_results
             ELSE /\ fl_probes' = probes
                  /\ fl_results' = (IF outcome = "sample"
                                    THEN Append(fl_results,
                                           [batch_size |-> size, computation |-> cu])
                                    ELSE fl_results)
                  /\ fl_pc' = (IF outcome = "break" \/ Len(probes) = Len(test_sizes)
                               THEN "remaining" ELSE "probe")
    /\ UNCHANGED fl_ret
    /\ FL_unchanged

(* if not is_batch_complete: while not is_batch_complete: process 500 more, *)
(* break on failure; then the summary and the return.                       *)
(* "while not is_batch_complete(pool_id)": one status query per iteration;  *)
(* the loop is left for the summary when the pool answers complete.         *)
FL_is_batch_complete ==
    /\ fl_pc = "remaining"
    /\ \E is_complete \in BOOLEAN :
          IF is_complete
          THEN /\ fl_pc' = "returned"
               /\ fl_ret' = FL_summary(fl_results)
          ELSE /\ fl_pc' = "processing"
               /\ fl_ret' = fl_ret
    /\ UNCHANGED <<fl_probes, fl_results>>
    /\ FL_unchanged

(* The body of the loop: one process_draw_batch transaction with batch size *)
(* 500; an unsuccessful result breaks, a successful one returns to the      *)
(* status query.  The loop keeps no count of its iterations.                *)
FL_process_remaining ==
    /\ fl_pc = "processing"
    /\ \E ans \in Answers :
          IF BC_run_transaction_raises(ans)
          THEN /\ fl_pc' = "raised"
               /\ fl_ret' = fl_ret
          ELSE IF BC_run_transaction_success(ans)
          THEN /\ fl_pc' = "remaining"
               /\ fl_ret' = fl_ret
          ELSE /\ fl_pc' = "returned"
               /\ fl_ret' = FL_summary(fl_results)
    /\ UNCHANGED <<fl_probes, fl_results>>
    /\ FL_unchanged

FL_Next ==
    \/ FL_setup
    \/ FL_run_batch_test
    \/ FL_is_batch_complete
    \/ FL_process_remaining

SpecLimit == InitLimit /\ [][FL_Next]_vars

(* The interpreter keeps executing find_batch_limit until it returns or     *)
(* raises: a step that is possible is eventually taken.                     *)
SpecLimitFair == SpecLimit /\ WF_vars(FL_Next)

(* ====================== variability analysis ("VA") ===================== *)

(* The computations handed to the analysis: all_computations in DC, the     *)
(* completePoolDraw computations of the results in CD.                      *)
CostSeqs == UNION {[1 .. n -> 0 .. MaxCost] : n \in 0 .. MaxSamples}

(* The five trials of Scenario D of the specification.                      *)
ScenarioD == <<320, 340, 9500, 330, 335>>

InitAnalysis ==
    /\ driver \in {"DC", "CD"}
    /\ user_count = 1
    /\ batch_size = 1
    /\ num_runs = 1
    /\ comp_max = 0
    /\ skip_setup = FALSE
    /\ AnyEnvironment
    /\ PipelineInit
    /\ NoLimit
    /\ NoReport
    /\ NoInvocation
    /\ NoExt
    /\ va_pc = "analyze"
    /\ va_costs \in CostSeqs \cup {ScenarioD}
    /\ va_report = [kind |-> "none"]

RECURSIVE SeqMin(_)
SeqMin(cs) ==
    IF Len(cs) = 1 THEN cs[1]
    ELSE LET rest == SeqMin(Tail(cs))
         IN IF cs[1] < rest THEN cs[1] ELSE rest

RECURSIVE SeqMax(_)
SeqMax(cs) ==
    IF Len(cs) = 1 THEN cs[1]
    ELSE LET rest == SeqMax(Tail(cs))
         IN IF cs[1] > rest THEN cs[1] ELSE rest

RECURSIVE SeqSum(_)
SeqSum(cs) == IF cs = <<>> THEN 0 ELSE cs[1] + SeqSum(Tail(cs))

(* variance_ratio = max_comp / min_comp if min_comp > 0 else 0, as the      *)
(* fraction <<numerator, denominator>>.                                     *)
DC_variance_ratio(min_comp, max_comp) ==
    IF min_comp > 0 THEN <<max_comp, min_comp>> ELSE <<0, 1>>

(* max(computations) / max(min(computations), 1), as a fraction.            *)
CD_ratio(min_comp, max_comp) ==
    <<max_comp, IF min_comp > 1 THEN min_comp ELSE 1>>

(* if variance_ratio > 2: "High variance detected"                          *)
DC_high_variance(ratio) == ratio[1] > DC_VARIANCE_THRESHOLD * ratio[2]

(* high_count = sum(1 for c in computations if c > 5000);                   *)
(* if high_count > 0: print_warning(...)                                    *)
CD_high_count_warning(cs) == \E i \in 1 .. Len(cs) : cs[i] > CD_HIGH_THRESHOLD

VA_report(cs, ratio, flag) ==
    [kind |-> "report", runs |-> Len(cs), min |-> SeqMin(cs), max |-> SeqMax(cs),
     sum |-> SeqSum(cs), ratio |-> ratio, flag |-> flag]

VA_unchanged == UNCHANGED <<config, pc, run_num, test, locals, ret, results, rc,
                            runs_started, last_op, last_ans, runhist,
                            emulator_process, start_result, start_attempts,
                            stop_called, results_file,
                            fl_vars, rp_vars, tx_vars, ext_vars, va_costs>>

(* main of benchmark_draw_computation: the block under                      *)
(* if len(all_computations) > 1.                                            *)
DC_variability_analysis ==
    /\ driver = "DC"
    /\ va_pc = "analyze"
    /\ va_pc' = "done"
    /\ va_report' = (IF Len(va_costs) > 1
                     THEN VA_report(va_costs,
                            DC_variance_ratio(SeqMin(va_costs), SeqMax(va_costs)),
                            DC_high_variance(
                              DC_variance_ratio(SeqMin(va_costs), SeqMax(va_costs))))
                     ELSE [kind |-> "skipped"])
    /\ VA_unchanged

(* print_variability_summary of benchmark_complete_draw.                    *)
CD_print_variability_summary ==
    /\ driver = "CD"
    /\ va_pc = "analyze"
    /\ va_pc' = "done"
    /\ va_report' = (IF va_costs = <<>>
                     THEN [kind |-> "no_results"]
                     ELSE VA_report(va_costs,
                            CD_ratio(SeqMin(va_costs), SeqMax(va_costs)),
                            CD_high_count_warning(va_costs)))
    /\ VA_unchanged

VA_Next ==
    \/ DC_variability_analysis
    \/ CD_print_variability_summary

SpecAnalysis == InitAnalysis /\ [][VA_Next]_vars

(* ================= computation report lookup ("RP") ===================== *)

(* An id is a sequence of characters; 1, 2, 3 stand for a, b, c and 11, 12, *)
(* 13 for A, B, C.  The empty sequence is "no id" (None or "").             *)
NoId == <<>>
ReportKeys == {<<1>>, <<11>>, <<1, 2>>, <<3>>}

(* data.get("computation"): a value, or None when the entry has no such key. *)
ReportComputations == {0, 1, None}

ReportEntries == {[key |-> k, computation |-> c] : k \in ReportKeys, c \in ReportComputations}

(* The "transactions" dict of a report, in insertion order: entries with    *)
(* distinct keys.                                                           *)
ReportSnapshots ==
    {r \in UNION {[1 .. n -> ReportEntries] : n \in 0 .. MaxEntries} :
        \A i, j \in 1 .. Len(r) : r[i].key = r[j].key => i = j}

(* How fetching the report can end.                                         *)
FetchOutcomes == {"ok", "unreachable", "read_timeout", "unparsable"}

ReportFunctions == {"DC_execute_draw_phase", "BC_get_transaction_computation",
                    "CD_run_flow_tx", "LU_get_computation_for_tx"}

InitReport ==
    /\ driver = "BC"
    /\ user_count = 1
    /\ batch_size = 1
    /\ num_runs = 1
    /\ comp_max = 0
    /\ AnyEnvironment
    /\ PipelineInit
    /\ NoLimit
    /\ NoAnalysis
    /\ NoInvocation
    /\ NoExt
    /\ rp_fn \in ReportFunctions
    /\ rp_tx_id \in ReportKeys \cup {NoId}
    /\ rp_report \in ReportSnapshots
    /\ rp_success \in (IF rp_fn \in {"DC_execute_draw_phase", "LU_get_computation_for_tx"}
                       THEN BOOLEAN ELSE {TRUE})
    /\ rp_outs = <<>>

(* str.lower()                                                              *)
Lower(id) == [i \in 1 .. Len(id) |-> IF id[i] > 10 THEN id[i] - 10 ELSE id[i]]

(* a in b  for strings                                                      *)
IsSubstring(a, b) ==
    \E i \in 0 .. (Len(b) - Len(a)) : SubSeq(b, i + 1, i + Len(a)) = a

(* The entry of a dict under a key (the dict has it).                       *)
EntryOf(report, key) ==
    report[CHOOSE i \in 1 .. Len(report) : report[i].key = key]

HasKey(report, key) == \E i \in 1 .. Len(report) : report[i].key = key

(* data.get('computation', 0)                                               *)
GetOrZero(entry) == IF entry.computation = None THEN 0 ELSE entry.computation

NoEntry == [used |-> NoId, computation |-> None]

(* get_computation_report of benchmark_draw_computation and                 *)
(* benchmark_complete_draw: curl under  try / except Exception ; anything   *)
(* but a parsed body gives {}.                                              *)
DC_get_computation_report(fetch, report) ==
    [raised |-> FALSE, transactions |-> IF fetch = "ok" THEN report ELSE <<>>]

(* get_computation_report of benchmark_computation: urlopen(timeout=5) and  *)
(* response.read() under  except URLError / except JSONDecodeError ; the    *)
(* timeout of read() is a socket timeout, which neither clause catches.     *)
BC_get_computation_report(fetch, report) ==
    [raised |-> fetch = "read_timeout",
     transactions |-> IF fetch = "ok" THEN report ELSE <<>>]

(* execute_draw_phase: the loop over report['transactions'].items().        *)
RECURSIVE DC_report_scan(_, _, _)
DC_report_scan(entries, tx_id, size) ==
    IF entries = <<>> THEN [used |-> NoId, computation |-> 0]
    ELSE IF tx_id # NoId /\ Head(entries).key = tx_id
    THEN [used |-> Head(entries).key, computation |-> GetOrZero(Head(entries))]
    ELSE IF size = 1
    THEN [used |-> Head(entries).key, computation |-> GetOrZero(Head(entries))]
    ELSE DC_report_scan(Tail(entries), tx_id, size)

DC_execute_draw_phase_computation(transactions, tx_id) ==
    DC_report_scan(transactions, tx_id, Len(transactions))

(* get_transaction_computation: the partial match, first key in dict order. *)
RECURSIVE BC_partial_match(_, _)
BC_partial_match(entries, tx_id) ==
    IF entries = <<>> THEN NoEntry
    ELSE IF \/ IsSubstring(Lower(tx_id), Lower(Head(entries).key))
            \/ IsSubstring(Lower(Head(entries).key), Lower(tx_id))
    THEN [used |-> Head(entries).key, computation |-> Head(entries).computation]
    ELSE BC_partial_match(Tail(entries), tx_id)

(* get_transaction_computation                                              *)
BC_get_transaction_computation(transactions, tx_id) ==
    IF tx_id = NoId THEN NoEntry
    ELSE IF HasKey(transactions, tx_id)
    THEN [used |-> tx_id, computation |-> EntryOf(transactions, tx_id).computation]
    ELSE BC_partial_match(transactions, tx_id)

(* run_flow_tx of benchmark_complete_draw with measure_computation=True.    *)
CD_run_flow_tx_computation(transactions, tx_id) ==
    IF tx_id # NoId /\ HasKey(transactions, tx_id)
    THEN [used |-> tx_id, computation |-> GetOrZero(EntryOf(transactions, tx_id))]
    ELSE [used |-> NoId, computation |-> 0]

(* get_computation_for_tx: transactions.get(tx_id, {}).get('computation', 0) *)
(* under a bare except that returns 0.                                      *)
LU_get_computation_for_tx(transactions, tx_id) ==
    IF HasKey(transactions, tx_id)
    THEN [used |-> tx_id, computation |-> GetOrZero(EntryOf(transactions, tx_id))]
    ELSE [used |-> NoId, computation |-> 0]

(* A variant in which resolving an id takes its entry out of the report.    *)
ReportAfterLookup_consuming(report, tx_id) ==
    SelectSeq(report, LAMBDA e : e.key # tx_id)

(* The lookups read the dict ( in, .get, .items() ) and never write it.     *)
ReportAfterLookup(report, tx_id) == report

(* What one call gives: the fetch outcome, whether an exception left the    *)
(* function, the key of the entry used, the computation, and the success    *)
(* value of the operation measured.                                         *)
LookupResult(fetch, fetched, found) ==
    IF fetched.raised
    THEN [fetch |-> fetch, raised |-> TRUE, used |-> NoId, computation |-> None,
          success |-> rp_success]
    ELSE [fetch |-> fetch, raised |-> FALSE, used |-> found.used,
          computation |-> found.computation, success |-> rp_success]

RP_unchanged == UNCHANGED <<config, pc, run_num, test, locals, ret, results, rc,
                            runs_started, last_op, last_ans, runhist,
                            emulator_process, start_result, start_attempts,
                            stop_called, results_file,
                            fl_vars, va_vars, tx_vars, ext_vars, rp_fn,
                            rp_tx_id, rp_success>>

RP_DC_execute_draw_phase ==
    /\ rp_fn = "DC_execute_draw_phase"
    /\ Len(rp_outs) < 2
    /\ \E fetch \in FetchOutcomes :
          LET fetched == DC_get_computation_report(fetch, rp_report)
          IN rp_outs' = Append(rp_outs, LookupResult(fetch, fetched,
                 DC_execute_draw_phase_computation(fetched.transactions, rp_tx_id)))
    /\ rp_report' = ReportAfterLookup(rp_report, rp_tx_id)
    /\ RP_unchanged

RP_BC_get_transaction_computation ==
    /\ rp_fn = "BC_get_transaction_computation"
    /\ Len(rp_outs) < 2
    /\ \E fetch \in FetchOutcomes :
          LET fetched == IF rp_tx_id = NoId
                         THEN [raised |-> FALSE, transactions |-> <<>>]
                         ELSE BC_get_computation_report(fetch, rp_report)
          IN rp_outs' = Append(rp_outs,
                 LookupResult(IF rp_tx_id = NoId THEN "not_fetched" ELSE fetch, fetched,
                     BC_get_transaction_computation(fetched.transactions, rp_tx_id)))
    /\ rp_report' = ReportAfterLookup(rp_report, rp_tx_id)
    /\ RP_unchanged

RP_CD_run_flow_tx ==
    /\ rp_fn = "CD_run_flow_tx"
    /\ Len(rp_outs) < 2
    /\ \E fetch \in FetchOutcomes :
          LET fetched == IF rp_tx_id = NoId
                         THEN [raised |-> FALSE, transactions |-> <<>>]
                         ELSE DC_get_computation_report(fetch, rp_report)
          IN rp_outs' = Append(rp_outs,
                 LookupResult(IF rp_tx_id = NoId THEN "not_fetched" ELSE fetch, fetched,
                     CD_run_flow_tx_computation(fetched.transactions, rp_tx_id)))
    /\ rp_report' = ReportAfterLookup(rp_report, rp_tx_id)
    /\ RP_unchanged

RP_LU_get_computation_for_tx ==
    /\ rp_fn = "LU_get_computation_for_tx"
    /\ rp_tx_id # NoId
    /\ Len(rp_outs) < 2
    /\ \E fetch \in FetchOutcomes :
          LET fetched == DC_get_computation_report(fetch, rp_report)
          IN rp_outs' = Append(rp_outs, LookupResult(fetch, fetched,
                 LU_get_computation_for_tx(fetched.transactions, rp_tx_id)))
    /\ rp_report' = ReportAfterLookup(rp_report, rp_tx_id)
    /\ RP_unchanged

RP_Next ==
    \/ RP_DC_execute_draw_phase
    \/ RP_BC_get_transaction_computation
    \/ RP_CD_run_flow_tx
    \/ RP_LU_get_computation_for_tx

SpecReport == InitReport /\ [][RP_Next]_vars

(* ========================= run_flow_tx ("TX") ========================== *)

\* run_command(cmd, timeout=120); subprocess.run(..., timeout=120)
HARD_TIMEOUT == 120

(* What the flow CLI can do in one invocation: how long it takes, its exit  *)
(* code, whether stdout is JSON, the JSON's status, error and errorMessage  *)
(* ("absent": no such key, "empty": "" or null, "message": a text), and     *)
(* whether the text of stdout + stderr has the word error or panic, or the  *)
(* quoted word "error".                                                     *)
Responses ==
    [duration : {1, HARD_TIMEOUT + 1}, code : {0, 1}, json : BOOLEAN,
     status : {"SEALED", "FAILED", "PENDING"},
     error : {"absent", "empty", "message"},
     errorMessage : {"absent", "empty", "message"},
     text : {"clean", "error", "quoted_error"}]

(* Fields that cannot be observed are fixed: nothing is read after a        *)
(* timeout, and a stdout that is not JSON has no JSON fields.               *)
Observable(r) ==
    /\ r.duration > HARD_TIMEOUT =>
          (r.code = 0 /\ ~r.json /\ r.text = "clean")
    /\ ~r.json => (r.status = "PENDING" /\ r.error = "absent" /\ r.errorMessage = "absent")

InitInvocation ==
    /\ driver = "BC"
    /\ user_count = 1
    /\ batch_size = 1
    /\ num_runs = 1
    /\ comp_max = 0
    /\ AnyEnvironment
    /\ PipelineInit
    /\ NoLimit
    /\ NoAnalysis
    /\ NoReport
    /\ NoExt
    /\ tx_fn \in {"DC", "CD", "LU"}
    /\ tx_resp \in {r \in Responses : Observable(r)}
    /\ tx_out = [kind |-> "none"]

TxResult(success, message) == [kind |-> "returned", success |-> success, message |-> message]

TxRaised == [kind |-> "raised", success |-> FALSE, message |-> "TimeoutExpired"]

(* run_command of DC and CD: TimeoutExpired gives (-1, "", "Command timed   *)
(* out").                                                                   *)
DC_run_command(r) ==
    IF r.duration > HARD_TIMEOUT
    THEN [code |-> -1, json |-> FALSE, text |-> "clean", timed_out |-> TRUE]
    ELSE [code |-> r.code, json |-> r.json, text |-> r.text, timed_out |-> FALSE]

(* result.get('error', result.get('errorMessage', ''))                      *)
DC_declared_error(r) ==
    IF r.error # "absent" THEN [value |-> r.error, from |-> "error"]
    ELSE [value |-> r.errorMessage, from |-> "errorMessage"]

(* run_flow_tx of benchmark_draw_computation and benchmark_complete_draw.   *)
DC_run_flow_tx(r) ==
    LET c == DC_run_command(r)
    IN IF c.json
       THEN IF r.status # "SEALED" /\ DC_declared_error(r).value = "message"
            THEN TxResult(FALSE, DC_declared_error(r).from)
            ELSE TxResult(TRUE, "stdout")
       ELSE TxResult(c.code = 0 /\ c.text = "clean",
                     IF c.timed_out THEN "Command timed out" ELSE "output")

(* '"error"' in output.lower(): the JSON has an "error" key, or the text    *)
(* has the quoted word.                                                     *)
LU_quoted_error_in_output(r) ==
    (r.json /\ r.error # "absent") \/ r.text = "quoted_error"

(* run_flow_tx of benchmark_lazy_users: subprocess.run(timeout=120) with no *)
(* try around it.                                                           *)
LU_run_flow_tx(r) ==
    IF r.duration > HARD_TIMEOUT THEN TxRaised
    ELSE IF r.json /\ (r.error = "message" \/ r.status = "FAILED")
    THEN TxResult(FALSE, "output")
    ELSE TxResult(r.code = 0 /\ ~LU_quoted_error_in_output(r), "output")

TX_unchanged == UNCHANGED <<config, pc, run_num, test, locals, ret, results, rc,
                            runs_started, last_op, last_ans, runhist,
                            emulator_process, start_result, start_attempts,
                            stop_called, results_file,
                            fl_vars, va_vars, rp_vars, ext_vars, tx_fn, tx_resp>>

TX_DC_run_flow_tx ==
    /\ tx_fn \in {"DC", "CD"}
    /\ tx_out.kind = "none"
    /\ tx_out' = DC_run_flow_tx(tx_resp)
    /\ TX_unchanged

TX_LU_run_flow_tx ==
    /\ tx_fn = "LU"
    /\ tx_out.kind = "none"
    /\ tx_out' = LU_run_flow_tx(tx_resp)
    /\ TX_unchanged

TX_Next ==
    \/ TX_DC_run_flow_tx
    \/ TX_LU_run_flow_tx

SpecInvocation == InitInvocation /\ [][TX_Next]_vars


(* ============================ start_emulator ============================ *)
(* benchmark_complete_draw.start_emulator and                               *)
(* benchmark_draw_computation.start_emulator_with_profiling: Popen, then a  *)
(* loop of at most MAX_ATTEMPTS rounds of time.sleep(1) and one health      *)
(* poll.  The health answers are the environment's.                         *)

(* No driver runs, no helper is called.                                     *)
PipelineIdle ==
    /\ driver = "BC"
    /\ user_count = 1
    /\ batch_size = 1
    /\ num_runs = 1
    /\ comp_max = 0
    /\ AnyEnvironment
    /\ PipelineInit
    /\ NoLimit
    /\ NoAnalysis
    /\ NoReport
    /\ NoInvocation

Idle_unchanged == UNCHANGED <<config, pc, run_num, test, locals, ret, results, rc,
                              runs_started, last_op, last_ans, runhist,
                              emulator_process, start_result, start_attempts,
                              stop_called, results_file,
                            fl_vars, va_vars, rp_vars, tx_vars>>

SE_unchanged == Idle_unchanged /\ UNCHANGED <<sx, sm, pf>>

InitEmulatorStart ==
    /\ PipelineIdle
    /\ NoMeasurement
    /\ NoStorage
    /\ NoSummary
    /\ \E fn \in {"DC", "CD"}, enable_profiling \in BOOLEAN :
          se = [fn |-> fn, profiling |-> enable_profiling, pc |-> "popen", i |-> 0,
                polls |-> 0, sleeps |-> 0, last |-> "none", ret |-> "none"]

(* "for i in range(30)": another round follows round i.                     *)
SE_poll_again_inclusive(i) == i + 1 <= MAX_ATTEMPTS

SE_poll_again(i) == i + 1 < MAX_ATTEMPTS

(* subprocess.Popen(cmd, ...): an exception is caught and gives False.      *)
SE_Popen ==
    /\ se.pc = "popen"
    /\ \E raised \in BOOLEAN :
          se' = IF raised
                THEN [se EXCEPT !.pc = "returned", !.ret = "False"]
                ELSE [se EXCEPT !.pc = "sleep"]
    /\ SE_unchanged

(* time.sleep(1) at the head of each round.                                 *)
SE_sleep ==
    /\ se.pc = "sleep"
    /\ se' = [se EXCEPT !.pc = "poll", !.sleeps = @ + 1]
    /\ SE_unchanged

(* "if check_emulator_health(): return True"; after the last round          *)
(* "return False".                                                          *)
SE_check_emulator_health ==
    /\ se.pc = "poll"
    /\ \E healthy \in BOOLEAN :
          se' = IF healthy
                THEN [se EXCEPT !.polls = @ + 1, !.last = "healthy",
                                !.pc = "returned", !.ret = "True"]
                ELSE IF SE_poll_again(se.i)
                THEN [se EXCEPT !.polls = @ + 1, !.last = "unhealthy",
                                !.pc = "sleep", !.i = @ + 1]
                ELSE [se EXCEPT !.polls = @ + 1, !.last = "unhealthy",
                                !.pc = "returned", !.ret = "False"]
    /\ SE_unchanged

SE_Next ==
    \/ SE_Popen
    \/ SE_sleep
    \/ SE_check_emulator_health

SpecEmulatorStart == InitEmulatorStart /\ [][SE_Next]_vars

(* The interpreter keeps executing start_emulator; sleep and the health     *)
(* poll (curl with a timeout) return.                                       *)
SpecEmulatorStartFair == SpecEmulatorStart /\ WF_vars(SE_Next)


(* ======================= user storage index ranges ====================== *)
(* The run loop of main (benchmark_draw_computation) and of                 *)
(* run_variability_test (benchmark_complete_draw) as far as it creates      *)
(* pools and users: every run creates a pool, whose id is the largest id    *)
(* in existence, and then user_count collections stored under the paths     *)
(* benchmarkUser<startIndex> .. benchmarkUser<startIndex + user_count - 1>. *)

StorageUserCounts == {1, 2, 50, 1000, 1001}
FirstPools == {0, 1}

SX_unchanged == Idle_unchanged /\ UNCHANGED <<se, sm, pf>>

InitStorage ==
    /\ PipelineIdle
    /\ NoMeasurement
    /\ NoEmulatorStart
    /\ NoSummary
    /\ \E fn \in {"DC", "CD"}, users \in StorageUserCounts, runs \in 1 .. MaxRuns,
          first \in FirstPools :
          sx = [fn |-> fn, user_count |-> users, num_runs |-> runs, run_num |-> 1,
                pc |-> "pool", last_pool |-> first, pool_id |-> 0, ranges |-> <<>>]

(* DC setup_simulated_users: str(batch_start), counted from 0 in every run. *)
DC_user_start_index(pool_id) == 0

(* CD run_variability_test: user_start_index = (pool_id * 1000).            *)
CD_user_start_index(pool_id) == pool_id * 1000

user_start_index(fn, pool_id) ==
    IF fn = "DC" THEN DC_user_start_index(pool_id) ELSE CD_user_start_index(pool_id)

(* The loop goes to its next iteration or ends.                             *)
SX_next_run(st) ==
    IF st.run_num < st.num_runs
    THEN [st EXCEPT !.run_num = @ + 1, !.pc = "pool"]
    ELSE [st EXCEPT !.pc = "done"]

(* A failed step of a run: main of DC returns 1, run_variability_test of    *)
(* CD goes on with the next run.                                            *)
SX_failed(st) ==
    IF st.fn = "DC"
    THEN [st EXCEPT !.pc = "done"]
    ELSE SX_next_run(st)

(* setup_pool / create_multi_winner_pool: pool_id = max(pools).             *)
SX_setup_pool ==
    /\ sx.pc = "pool"
    /\ \E ok \in BOOLEAN :
          sx' = IF ok
                THEN [sx EXCEPT !.last_pool = @ + 1, !.pool_id = sx.last_pool + 1,
                                !.pc = "users"]
                ELSE SX_failed(sx)
    /\ SX_unchanged

(* setup_simulated_users / create_users: the batches of 50 write the        *)
(* indexes start .. start + user_count - 1; a failed batch ends the call.   *)
SX_create_users ==
    /\ sx.pc = "users"
    /\ \E ok \in BOOLEAN :
          sx' = IF ok
                THEN SX_next_run([sx EXCEPT !.ranges = Append(@,
                         [pool |-> sx.pool_id,
                          start |-> user_start_index(sx.fn, sx.pool_id),
                          count |-> sx.user_count])])
                ELSE SX_failed(sx)
    /\ SX_unchanged

SX_Next ==
    \/ SX_setup_pool
    \/ SX_create_users

SpecStorage == InitStorage /\ [][SX_Next]_vars


(* ================ benchmark_computation.py: summary ("SM") =============== *)
(* print_benchmark_summary(results): the "KEY INSIGHTS" estimate of the     *)
(* largest batch.  A result is the pair of its user_count and its           *)
(* total_batch_cu; main's scaling test collects one result per user count   *)
(* of [1, 5, 10, 25, 50].                                                   *)

SummaryLoads == {1, 5, 50}
SummaryCosts == {0, 500, 1000, CU_LIMIT}
SummaryResults == [user_count : SummaryLoads, total_batch_cu : SummaryCosts]

SummaryInputs ==
    UNION {[1 .. n -> SummaryResults] : n \in 1 .. MaxResults}

SM_unchanged == Idle_unchanged /\ UNCHANGED <<se, sx, pf>>

InitSummary ==
    /\ PipelineIdle
    /\ NoMeasurement
    /\ NoEmulatorStart
    /\ NoStorage
    /\ \E results_in \in SummaryInputs :
          sm = [pc |-> "called", results |-> results_in, max_users |-> None]

(* per_user_batch_cu = total_batch_cu / user_count if user_count > 0 else 0 *)
(* is positive.                                                             *)
SM_valid(r) == r.user_count > 0 /\ r.total_batch_cu > 0

(* valid_results = [r for r in results if r.per_user_batch_cu > 0]          *)
SM_valid_results(rs) == SelectSeq(rs, SM_valid)

(* sum(r.per_user_batch_cu for r in valid_results) as a fraction <<n, d>>.  *)
RECURSIVE SM_sum_per_user(_)
SM_sum_per_user(rs) ==
    IF rs = <<>> THEN <<0, 1>>
    ELSE LET rest == SM_sum_per_user(Tail(rs))
             r == Head(rs)
         IN <<r.total_batch_cu * rest[2] + rest[1] * r.user_count,
              r.user_count * rest[2]>>

(* avg_per_user = sum(...) / len(valid_results);                            *)
(* max_users = int(9999 / avg_per_user) if avg_per_user > 0 else "N/A"      *)
SM_max_users(valid) ==
    LET sum == SM_sum_per_user(valid)
    IN IF sum[1] > 0 THEN (CU_LIMIT * sum[2] * Len(valid)) \div sum[1] ELSE None

(* The estimate is printed when there is a valid result.                    *)
SM_print_benchmark_summary ==
    /\ sm.pc = "called"
    /\ LET valid == SM_valid_results(sm.results)
       IN sm' = [sm EXCEPT !.pc = "printed",
                           !.max_users = IF valid # <<>> THEN SM_max_users(valid)
                                         ELSE None]
    /\ SM_unchanged

SM_Next ==
    \/ SM_print_benchmark_summary

SpecSummary == InitSummary /\ [][SM_Next]_vars


(* ================== measurement of one operation ("PF") ================= *)
(* execute_draw_phase of benchmark_draw_computation and run_flow_tx with    *)
(* measure_computation=True of benchmark_complete_draw, called for pf_ops   *)
(* operations one after the other.  pf_log is the sequence of requests the  *)
(* emulator receives; the position of a request in it is its time.          *)

PF_unchanged == Idle_unchanged /\ UNCHANGED <<se, sx, sm>>

InitProfile ==
    /\ PipelineIdle
    /\ NoEmulatorStart
    /\ NoStorage
    /\ NoSummary
    /\ \E fn \in {"DC", "CD"}, save_profile \in BOOLEAN, ops \in 1 .. MaxOps :
          pf = [fn |-> fn, profile |-> save_profile, ops |-> ops, op |-> 1, i |-> 1,
                tx |-> NoTx, report |-> NoFetch, log |-> <<>>, records |-> <<>>]

(* A variant that fetches the report before it sends the transaction.       *)
PF_statements_fetch_first(fn, reset) ==
    (IF reset THEN <<"reset">> ELSE <<>>) \o <<"fetch", "invoke", "resolve">>

(* The statements of the measuring function in their order:                 *)
(* DC execute_draw_phase: reset_computation_profile(); run_flow_tx(...);    *)
(*    report = get_computation_report(); the scan of the report.            *)
(* CD run_flow_tx: run_command(cmd); report = get_computation_report();     *)
(*    the lookup; run_complete_draw_with_profiling resets before it.        *)
PF_statements(fn, reset) ==
    (IF reset THEN <<"reset">> ELSE <<>>) \o <<"invoke", "fetch", "resolve">>

(* Whether the operation is preceded by reset_computation_profile():        *)
(* DC always; CD before completePoolDraw (the last operation) "if           *)
(* save_profile".                                                           *)
PF_resets(fn, profile, op, ops) ==
    IF fn = "DC" THEN TRUE ELSE profile /\ op = ops

PF_statement == PF_statements(pf_fn, PF_resets(pf_fn, pf_profile, pf_op, pf_ops))[pf_i]

(* Whether the report is fetched: DC always; CD "if measure_computation     *)
(* and tx_id", reached only when the result was not returned earlier.       *)
PF_fetches(fn, tx) == IF fn = "DC" THEN TRUE ELSE tx.success /\ tx.tx_id

PF_event(kind) == [kind |-> kind, op |-> pf.op]

PF_reset_computation_profile ==
    /\ pf.op <= pf.ops /\ PF_statement = "reset"
    /\ pf' = [pf EXCEPT !.log = Append(@, PF_event("reset")), !.i = @ + 1]
    /\ PF_unchanged

(* The transaction is sent and the flow CLI returns (or is timed out).      *)
PF_run_flow_tx ==
    /\ pf.op <= pf.ops /\ PF_statement = "invoke"
    /\ \E success \in BOOLEAN, tx_id \in BOOLEAN :
          pf' = [pf EXCEPT !.log = @ \o <<PF_event("issue"), PF_event("return")>>,
                           !.tx = [success |-> success, tx_id |-> tx_id],
                           !.i = @ + 1]
    /\ PF_unchanged

(* report = get_computation_report(): {} when the fetch failed.             *)
PF_get_computation_report ==
    /\ pf.op <= pf.ops /\ PF_statement = "fetch"
    /\ IF PF_fetches(pf.fn, pf.tx)
       THEN \E ok \in BOOLEAN :
               pf' = [pf EXCEPT !.log = Append(@, PF_event("fetch")),
                                !.report = [at |-> Len(pf.log) + 1, ok |-> ok],
                                !.i = @ + 1]
       ELSE pf' = [pf EXCEPT !.i = @ + 1]
    /\ PF_unchanged

(* The computation is looked up in report and returned; source is the time  *)
(* of the fetch it was read from, 0 when it is the initial value 0.  The    *)
(* function returns: its local report is gone.                              *)
PF_resolve ==
    /\ pf.op <= pf.ops /\ PF_statement = "resolve"
    /\ \E found \in BOOLEAN :
          pf' = [pf EXCEPT !.records = Append(@,
                               [op |-> pf.op,
                                source |-> IF pf.report.ok /\ found
                                           THEN pf.report.at ELSE 0]),
                           !.report = NoFetch,
                           !.op = @ + 1,
                           !.i = 1]
    /\ PF_unchanged

PF_Next ==
    \/ PF_reset_computation_profile
    \/ PF_run_flow_tx
    \/ PF_get_computation_report
    \/ PF_resolve

SpecProfile == InitProfile /\ [][PF_Next]_vars

(* ============================== properties ============================== *)

(* Batch operations issued so far by the batch loop of the current run.     *)
BatchOpsIssued == IF driver \in {"DC", "CD"} THEN batch_count ELSE loop_i

(* The documented ceiling of the batch loop.                                *)
BatchCeiling ==
    CASE driver = "DC" -> (user_count \div batch_size) + 5
      [] driver = "CD" -> 100
      [] driver = "LU" -> 100
      [] OTHER -> (user_count \div batch_size) + 10

C2_BatchFailureEndsRun ==
    [][batch_failed => last_op' \notin {"batch", "rand", "complete"}]_vars

(* C3: in run_full_draw_benchmark (DC) and run_multi_user_benchmark (BC),   *)
(* when the batch ceiling is exhausted without isBatchComplete having       *)
(* become true, the run fails: neither the randomness request nor the       *)
(* finalize is issued.                                                      *)
C3_CeilingFailsRun ==
    [][batch_exit = "ceiling" /\ driver \in {"DC", "BC"}
          => last_op' \notin {"rand", "complete"}]_vars

(* C4: a batch operation that fails with "already complete" ends the batch  *)
(* phase as a success: benchmark_process_draw_batch (LU) returns the        *)
(* computation accumulated from the earlier successful batches, never None, *)
(* and main goes on as after a completed batch phase (test 1: to the        *)
(* randomness request; test 2, the last step of main: return 0); DC and CD  *)
(* go on to the randomness request.                                         *)
C4_AlreadyCompleteIsSuccess ==
    [][pc = "batch" /\ last_ans' = "already" /\ driver \in {"DC", "CD", "LU"}
          => /\ ~batch_failed'
             /\ driver = "LU" => /\ ret' = total_batch
                                 /\ ret' # None
                                 /\ batch_exit' = "already"
                                 /\ IF test = 1 THEN pc' = "rand" /\ rc' = -1
                                    ELSE pc' = "done" /\ rc' = 0
             /\ driver # "LU" => pc' = "rand"]_vars

(* LU: the loop was ended by "already complete" after a successful batch    *)
(* with computation, and main stands before the randomness request.         *)
C4_AlreadyCompleteAfterProgress ==
    /\ driver = "LU"
    /\ batch_exit = "already"
    /\ last_ans = "already"
    /\ ret > 0
    /\ pc = "rand"

(* C5: in every driver, when startDraw fails, no batch operation, no        *)
(* randomness request and no finalize is issued in that run.                *)
C5_StartFailureEndsRun ==
    [][start_state = "failed" => last_op' \notin {"batch", "rand", "complete"}]_vars

(* A run whose startDraw failed has ended.                                  *)
C5_StartFailed ==
    /\ start_state = "failed"
    /\ last_op = "start"
    /\ last_ans = "error"

(* C6 as stated: finalize is issued only after a randomness request of the  *)
(* same run succeeded; a run whose randomness request failed never issues   *)
(* finalize.                                                                *)
C6_FinalizeOnlyAfterRandomnessSucceeded ==
    [][last_op' = "complete" => rand_state = "ok"]_vars

(* C6, amended: finalize is issued only after the randomness request of the *)
(* same run has been issued and has returned; only main of LU requires it   *)
(* to have succeeded, the other drivers issue finalize after a failed       *)
(* request as well.                                                         *)
C6_FinalizeAfterRandomnessRequest ==
    [][last_op' = "complete"
          => /\ rand_issued >= 1
             /\ rand_state \in {"ok", "failed"}
             /\ driver = "LU" => rand_state = "ok"]_vars

(* Finalize has been issued in a run whose randomness request failed.       *)
C6_FinalizeAfterFailedRandomness ==
    /\ last_op = "complete"
    /\ rand_state = "failed"
    /\ rand_issued = 1

(* C7: in every run in which finalize is issued, a settle wait took place   *)
(* between the randomness request and the finalize, whether the randomness  *)
(* request succeeded or failed.                                             *)
C7_SettleBeforeFinalize ==
    [][last_op' = "complete" => settled]_vars

(* C8 as stated: when the randomness request fails, the driver issues it    *)
(* again (at least once, and at most a fixed small number of times).        *)
C8_RandomnessRetried ==
    [][rand_state = "failed" /\ rand_issued = 1 /\ last_op = "rand" /\ rc \notin {1, 2}
          => last_op' = "rand"]_vars

(* C8, amended: no driver issues the randomness request again; a run issues *)
(* it at most once, and after a failure the run either ends (LU) or goes on *)
(* to finalize (DC, CD, BC).                                                *)
C8_RandomnessIssuedOnce ==
    /\ [](rand_issued <= 1)
    /\ [][last_op' = "rand" => rand_issued = 0 /\ rand_state = "none"]_vars

(* The randomness request failed and the run went on without issuing it     *)
(* again.                                                                   *)
C8_FailedRandomnessNotRetried ==
    /\ rand_state = "failed"
    /\ rand_issued = 1
    /\ last_op = "settle"

(* C9: when finalize fails, run_full_draw_benchmark (DC) and                *)
(* run_single_benchmark (CD) still return a record, and it contains every   *)
(* measurement recorded for the earlier phases of the run.                  *)
C9_FailedFinalizeKeepsMeasurements ==
    [][last_op' = "complete" /\ complete_state' = "failed" /\ driver \in {"DC", "CD"}
          => /\ Len(results') = Len(results) + 1
             /\ LET rec == results'[Len(results')]
                IN /\ Len(rec.phases) >= Len(phases)
                   /\ SubSeq(rec.phases, 1, Len(phases)) = phases]_vars

(* A record returned after a failed finalize that holds the measurements of *)
(* startPoolDraw, processDrawBatch and requestDrawRandomness.               *)
C9_RecordAfterFailedFinalize ==
    /\ driver \in {"DC", "CD"}
    /\ last_op = "complete"
    /\ complete_state = "failed"
    /\ Len(results) >= 1
    /\ {"startPoolDraw", "processDrawBatch", "requestDrawRandomness"}
          \subseteq PhaseNames(results[Len(results)].phases)
    /\ results[Len(results)].total_computation > 0

(* C10: every run iteration of main (DC) and run_variability_test (CD) adds *)
(* exactly one result record to the collected results, also when pool       *)
(* creation, user creation or the initiate operation fails: whenever an     *)
(* iteration has ended, there are as many records as iterations entered.    *)
C10_OneRecordPerRun ==
    (driver \in {"DC", "CD"} /\ pc \in {"pool", "done"})
        => Len(results) = runs_started

(* A record is marked incomplete when it carries an error annotation or     *)
(* lacks one of the four phases.                                            *)
MarkedIncomplete(rec) == rec.error # "" \/ Len(rec.phases) < 4

(* C11: whenever a phase operation of a run of DC or CD has failed (the     *)
(* start, a batch operation with a message other than "already complete",   *)
(* the randomness request or the finalize), the record collected for that   *)
(* run is marked incomplete, so that it cannot be taken for the record of   *)
(* a run in which every phase succeeded.                                    *)
C11_FailedRunMarkedIncomplete ==
    [][Len(results') > Len(results) /\ driver \in {"DC", "CD"}
          /\ (start_state' = "failed" \/ batch_failed' \/ rand_state' = "failed"
                \/ complete_state' = "failed")
          => MarkedIncomplete(results'[Len(results')])]_vars

(* C12: in main of CD, of DC without --skip-setup and of LU, whenever main  *)
(* has been left (normally, by an early error return, by KeyboardInterrupt  *)
(* or by another exception) after start_emulator was attempted,             *)
(* stop_emulator has been called and no emulator process handle is held.    *)
C12_EmulatorStoppedOnExit ==
    (pc = "done" /\ start_attempts >= 1)
        => (stop_called /\ emulator_process = "none")

(* main was left by an exception after the emulator had been started.       *)
C12_LeftByException ==
    /\ pc = "done"
    /\ rc = 2
    /\ start_result = "ok"
    /\ stop_called
    /\ last_op # "interrupt"

(* C13: if start_emulator returns False, main returns a failure status      *)
(* without issuing any deploy, setup or pipeline operation, and             *)
(* start_emulator is never called a second time.                            *)
C13_FailedStartAborts ==
    /\ start_attempts <= 1
    /\ start_result = "failed"
          => (pc = "done" /\ rc = 1 /\ last_op = "emulator" /\ runs_started = 0)

(* start_emulator has returned False.                                       *)
C13_StartReturnedFalse ==
    /\ start_result = "failed"
    /\ start_attempts = 1
    /\ pc = "done"

(* ---------------------------- find_batch_limit --------------------------- *)

FL_estimated == fl_pc = "returned" /\ fl_ret.kind = "estimate"

(* C14: every estimate returned by find_batch_limit has                     *)
(* recommended_max <= theoretical_max.                                      *)
C14_RecommendedNotAboveTheoretical ==
    FL_estimated => fl_ret.recommended_max <= fl_ret.theoretical_max

(* An estimate whose margin is visible.                                     *)
C14_EstimateWithMargin ==
    /\ FL_estimated
    /\ fl_ret.theoretical_max > 0
    /\ fl_ret.recommended_max < fl_ret.theoretical_max

(* The sum of the samples' per-unit costs as a fraction, read off the       *)
(* returned "results" list.                                                 *)
ReturnedCostSum == FL_sum_per_user(fl_ret.results)

ProbeMeasured(p) == p.success /\ p.computation # None /\ p.computation > 0

ProbeSample(p) == [batch_size |-> p.load, computation |-> p.computation]

RECURSIVE MeasuredSamples(_)
MeasuredSamples(ps) ==
    IF ps = <<>> THEN <<>>
    ELSE IF ProbeMeasured(Head(ps))
         THEN <<ProbeSample(Head(ps))>> \o MeasuredSamples(Tail(ps))
         ELSE MeasuredSamples(Tail(ps))

(* C16: the samples of find_batch_limit are exactly the probes that         *)
(* succeeded and were measured; a failed or unmeasured probe adds none, so  *)
(* the average is taken over the successful measured probes only.           *)
C16_OnlyMeasuredSuccessesAreSamples ==
    /\ fl_results = MeasuredSamples(fl_probes)
    /\ FL_estimated => fl_ret.results = MeasuredSamples(fl_probes)

(* A successful probe whose computation was not found has been classified.  *)
C16_UnmeasuredProbe ==
    /\ fl_pc \in {"remaining", "returned"}
    /\ \E i \in 1 .. Len(fl_probes) :
          fl_probes[i].success /\ ~ProbeMeasured(fl_probes[i])

(* A probe that ran to an answer and failed.                                *)
FailedProbeAt(i) == ~fl_probes[i].success

C18_IncrementalProbing ==
    \A i \in 1 .. Len(fl_probes) :
        /\ fl_probes[i].load = start_users + (i - 1) * step
        /\ fl_probes[i].load <= max_users
        /\ \A j \in 1 .. (i - 1) : fl_probes[j].success

(* The probes agree with the environment of Scenario C: a batch of 3075     *)
(* costs 9948, a batch of 3100 exceeds the limit.                           *)
ScenarioEnvironment ==
    \A i \in 1 .. Len(fl_probes) :
        /\ fl_probes[i].load = 3075 =>
              (fl_probes[i].success /\ fl_probes[i].computation = ScenarioCost)
        /\ fl_probes[i].load = 3100 => ~fl_probes[i].success

(* C19: find_batch_limit(3075, 25, 3100) in the environment of Scenario C   *)
(* reports a theoretical maximum in 3075 .. 3090 and a recommended maximum  *)
(* of at most 0.9 times it.                                                 *)
C19_ScenarioC ==
    ( /\ fl_pc = "returned"
      /\ start_users = 3075 /\ step = ScenarioStep /\ max_users = 3100
      /\ fl_probes # <<>>
      /\ ScenarioEnvironment )
    => /\ fl_ret.kind = "estimate"
       /\ fl_ret.theoretical_max >= 3075
       /\ fl_ret.theoretical_max <= 3090
       /\ 10 * fl_ret.recommended_max <= 9 * fl_ret.theoretical_max

(* -------------------------- variability analysis ------------------------- *)

FloorOne(x) == IF x > 1 THEN x ELSE 1

(* C20: for every non-empty sequence of costs the analysis reports          *)
(* rangeRatio = max / max(min, 1); with a minimum of 0 the ratio is max.    *)
C20_RangeRatio ==
    (va_pc = "done" /\ va_costs # <<>>) =>
        /\ va_report.kind = "report"
        /\ va_report.ratio[1] * FloorOne(SeqMin(va_costs))
              = SeqMax(va_costs) * va_report.ratio[2]

(* C21: the analysis raises its instability flag exactly when               *)
(* max / max(min, 1) exceeds 2.                                             *)
C21_FlagIffRatioAboveTwo ==
    (va_pc = "done" /\ va_costs # <<>>) =>
        /\ va_report.kind = "report"
        /\ va_report.flag <=> SeqMax(va_costs) > 2 * FloorOne(SeqMin(va_costs))

(* ------------------------------ batch count ------------------------------ *)

Ceil(n, b) == (n + b - 1) \div b

(* C22: against a contract that processes min(batchSize, remaining)         *)
(* participants per batch operation and reports isBatchComplete exactly     *)
(* when none remain, run_full_draw_benchmark issues exactly                 *)
(* ceil(participants / batchSize) batch operations: while the loop goes on  *)
(* participants remain (the predicate was false after every iteration so    *)
(* far), and the loop is left only by completion, with that count recorded. *)
C22_CeilBatchOperations ==
    /\ [](pc = "batch" => EnvRemaining(batch_count) > 0)
    /\ [](batch_exit \in {"none", "complete"})
    /\ [][batch_exit = "none" /\ batch_exit' # "none"
             => /\ batch_count + 1 = Ceil(user_count, batch_size)
                /\ phases'[Len(phases')].phase_name = "processDrawBatch"
                /\ phases'[Len(phases')].tx_count = Ceil(user_count, batch_size)]_vars

(* Scenario B has completed its batch phase: three operations.              *)
C22_ScenarioB ==
    /\ user_count = 120 /\ batch_size = 50
    /\ batch_exit = "complete"
    /\ phases # <<>>
    /\ phases[Len(phases)].phase_name = "processDrawBatch"
    /\ phases[Len(phases)].tx_count = 3

(* ------------------------------ report lookup ---------------------------- *)

FetchFailures == {"unreachable", "read_timeout", "unparsable"}

(* C23: with a known operation id, execute_draw_phase and                   *)
(* get_transaction_computation take the computation only from the entry     *)
(* whose key equals the id, and give no data when there is no such entry.   *)
C23_ExactMatchWhenIdKnown ==
    \A n \in 1 .. Len(rp_outs) :
        ( /\ rp_fn \in {"DC_execute_draw_phase", "BC_get_transaction_computation"}
          /\ rp_tx_id # NoId
          /\ rp_outs[n].fetch = "ok" )
        => IF HasKey(rp_report, rp_tx_id)
           THEN rp_outs[n].used = rp_tx_id
           ELSE rp_outs[n].used = NoId

(* C24: in run_flow_tx (CD) and get_computation_for_tx (LU) a measurement   *)
(* whose id is absent from the report, or whose report could not be         *)
(* fetched, is recorded as unknown and not as the number 0.                 *)
C24_AbsentIsUnknown ==
    \A n \in 1 .. Len(rp_outs) :
        ( /\ rp_fn \in {"CD_run_flow_tx", "LU_get_computation_for_tx"}
          /\ rp_tx_id # NoId
          /\ (rp_outs[n].fetch \in FetchFailures \/ ~HasKey(rp_report, rp_tx_id)) )
        => rp_outs[n].computation = None

(* C25: a failed fetch of the report raises no exception and leaves the     *)
(* success value of the operation measured as it was.                       *)
C25_FetchFailureIsNoData ==
    \A n \in 1 .. Len(rp_outs) :
        ( /\ rp_fn \in {"DC_execute_draw_phase", "CD_run_flow_tx",
                        "BC_get_transaction_computation"}
          /\ rp_outs[n].fetch \in FetchFailures )
        => /\ ~rp_outs[n].raised
           /\ rp_outs[n].success = rp_success

DeclaresError(r) == r.json /\ (r.error = "message" \/ r.errorMessage = "message")

(* C27: a JSON response with a non-empty error or errorMessage makes        *)
(* run_flow_tx return success = False with the declared message, whatever   *)
(* the status and the exit code.                                            *)
C27_DeclaredErrorIsFailure ==
    (tx_out.kind # "none" /\ tx_resp.duration <= HARD_TIMEOUT /\ DeclaresError(tx_resp))
    => /\ tx_out.kind = "returned"
       /\ ~tx_out.success
       /\ tx_out.message \in {"error", "errorMessage", "output"}

(* C28: an invocation beyond the hard timeout of 120 makes run_flow_tx      *)
(* return a failed result without raising.                                  *)
C28_TimeoutIsFailedResult ==
    (tx_out.kind # "none" /\ tx_resp.duration > HARD_TIMEOUT)
    => /\ tx_out.kind = "returned"
       /\ ~tx_out.success

(* -------------------------- permanent failures --------------------------- *)

(* C29: in main of benchmark_lazy_users a completeDraw operation that       *)
(* failed permanently (answer "error": a failure whose output matches no    *)
(* 'already complete' pattern) is not issued again: main is not back at the *)
(* finalize step after such an answer.                                      *)
C29_PermanentFinalizeFailureNotRetried ==
    (driver = "LU" /\ last_op = "complete" /\ last_ans = "error")
    => pc # "complete"

(* ------------------------------ aggregation ------------------------------ *)

PhaseComputations(ps) == [i \in 1 .. Len(ps) |-> ps[i].total_computation]

PhaseTxCounts(ps) == [i \in 1 .. Len(ps) |-> ps[i].tx_count]

(* C30: in run_full_draw_benchmark the processDrawBatch phase total is the  *)
(* sum of the per-iteration measurements accumulated (during the loop the   *)
(* running total is that sum, and so is the total of the phase recorded     *)
(* when the loop ends), and every BenchmarkRun returned has                 *)
(* total_computation and total_tx_count equal to the sums over its phases.  *)
C30_TotalsAreSums ==
    driver = "DC" =>
        /\ pc = "batch" => total_batch = SeqSum(batch_computations)
        /\ (pc = "rand" /\ last_op = "batch") =>
              /\ phases # <<>>
              /\ phases[Len(phases)].phase_name = "processDrawBatch"
              /\ phases[Len(phases)].total_computation = SeqSum(batch_computations)
        /\ \A n \in 1 .. Len(results) :
              /\ results[n].total_computation = SeqSum(PhaseComputations(results[n].phases))
              /\ results[n].total_tx_count = SeqSum(PhaseTxCounts(results[n].phases))

(* A BenchmarkRun was returned whose batch phase took several operations    *)
(* and measured something, next to other measured phases.                   *)
C30_RunWithSeveralBatches ==
    /\ driver = "DC"
    /\ Len(results) = 1
    /\ \E i \in 1 .. Len(results[1].phases) :
          /\ results[1].phases[i].phase_name = "processDrawBatch"
          /\ results[1].phases[i].tx_count >= 2
          /\ results[1].phases[i].total_computation >= 2
          /\ results[1].total_computation > results[1].phases[i].total_computation
          /\ results[1].total_tx_count > results[1].phases[i].tx_count

(* --------------------------- compute allowance --------------------------- *)

(* C31: in every driver the finalize operation is issued with an allowance  *)
(* above the benchmark ceiling 9999, and the initiate, batch and randomness *)
(* operations with the ceiling itself.                                      *)
C31_FinalizeAllowanceElevated ==
    last_op \in PipelineOps =>
        IF last_op = "complete"
        THEN compute_limit(driver, last_op) > 9999
        ELSE compute_limit(driver, last_op) = 9999

(* ----------------------------- sealed status ----------------------------- *)

(* C36: run_flow_tx of benchmark_complete_draw and benchmark_draw_computation *)
(* returns success = True for a parseable JSON response only if its status   *)
(* is SEALED.                                                                *)
C36_SuccessOnlyIfSealed ==
    (tx_fn \in {"DC", "CD"} /\ tx_out.kind = "returned" /\ tx_resp.json
        /\ tx_resp.duration <= HARD_TIMEOUT /\ tx_out.success)
    => tx_resp.status = "SEALED"

(* --------------------------- measured batches ---------------------------- *)

(* C38: in run_full_draw_benchmark the processDrawBatch phase record's      *)
(* tx_count is the number of batch operations whose measurement was added   *)
(* to total_computation, also when the last batch operation failed.         *)
C38_TxCountIsMeasuredBatches ==
    (driver = "DC" /\ last_op = "batch" /\ batch_exit # "none" /\ Len(phases) > 0)
    => (phases[Len(phases)].phase_name = "processDrawBatch"
        => phases[Len(phases)].tx_count = Len(batch_computations))

(* ------------------------ remaining-receivers loop ----------------------- *)

(* C34: the loop of find_batch_limit that processes the remaining receivers *)
(* terminates for every behaviour of the environment, also when every batch *)
(* operation succeeds while isBatchComplete stays false.                    *)
C34_RemainingLoopTerminates ==
    (fl_pc = "remaining") ~> (fl_pc \in {"returned", "raised"})

(* ---------------------------- emulator start ----------------------------- *)

(* The polls of one call of start_emulator: never more than 30, one wait    *)
(* before each, True exactly at the first healthy answer, False after 30    *)
(* unhealthy answers (or when the emulator could not be spawned).           *)
StartEmulatorPolls ==
    /\ se_polls <= MAX_ATTEMPTS
    /\ se_sleeps = (IF se_pc = "poll" THEN se_polls + 1 ELSE se_polls)
    /\ se_last = "healthy" <=> (se_pc = "returned" /\ se_ret = "True")
    /\ (se_pc = "returned" /\ se_ret = "True") => se_polls >= 1
    /\ (se_pc = "returned" /\ se_ret = "False") => se_polls \in {0, MAX_ATTEMPTS}
    /\ se_pc = "returned" <=> se_ret # "none"

(* C33: start_emulator performs at most 30 health polls separated by a      *)
(* fixed wait, returns True at the first successful poll and False after    *)
(* 30 failed polls, and returns for every sequence of health answers.       *)
C33_StartEmulatorTerminates ==
    /\ []StartEmulatorPolls
    /\ <>(se_pc = "returned")

(* Thirty polls were answered unhealthy and the call returned False.        *)
C33_ThirtyFailedPolls ==
    /\ se_pc = "returned"
    /\ se_ret = "False"
    /\ se_polls = MAX_ATTEMPTS
    /\ se_last = "unhealthy"

(* ----------------------------- results files ----------------------------- *)

(* C35: when main of benchmark_draw_computation or benchmark_complete_draw  *)
(* has returned without interruption and at least one run record was        *)
(* collected, the records have been written to the results files, also when *)
(* the pool or user setup of a later run failed.                            *)
C35_CollectedRecordsAreSaved ==
    (driver \in {"DC", "CD"} /\ pc = "done" /\ last_op # "interrupt" /\ results # <<>>)
    => (results_file.written /\ results_file.records = results)

(* ------------------------- storage index ranges -------------------------- *)

RangesDisjoint(a, b) == a.start + a.count <= b.start \/ b.start + b.count <= a.start

(* C37: across the runs of one invocation the storage index ranges          *)
(* [start, start + user_count) used to create users for different pools are *)
(* pairwise disjoint, for every user count and number of runs.              *)
C37_PoolRangesDisjoint ==
    \A i, j \in 1 .. Len(sx_ranges) :
        sx_ranges[i].pool # sx_ranges[j].pool
            => RangesDisjoint(sx_ranges[i], sx_ranges[j])

(* ------------------------- extrapolated maximum -------------------------- *)

(* The loads of the valid samples, all of them observed to succeed.         *)
SampleLoads(rs) == {rs[i].user_count : i \in 1 .. Len(rs)}

(* C39: for every non-empty set of samples whose costs are within 9999 the  *)
(* extrapolated maximum floor(9999 / mean per-unit cost) is not below the   *)
(* largest load that was observed to succeed.                               *)
C39_EstimateCoversObservedLoads ==
    LET valid == SM_valid_results(sm_results)
    IN (sm_pc = "printed" /\ valid # <<>>
          /\ \A i \in 1 .. Len(valid) : valid[i].total_batch_cu <= CU_LIMIT)
       => \A load \in SampleLoads(valid) : sm_max_users >= load

(* --------------------------- report freshness ---------------------------- *)

(* The time at which the invocation of operation op returned (0: not yet).  *)
ReturnedAt(op) ==
    LET at == {t \in 1 .. Len(pf_log) : pf_log[t] = [kind |-> "return", op |-> op]}
    IN IF at = {} THEN 0 ELSE CHOOSE t \in at : TRUE

(* C32: the computation recorded for an operation is resolved from a report *)
(* fetched after the operation's invocation returned and before the next    *)
(* operation or profile reset is issued; never from a report fetched before *)
(* the operation or after a later reset.                                    *)
C32_ReportFetchedAfterOperation ==
    \A n \in 1 .. Len(pf_records) :
        LET r == pf_records[n]
        IN r.source # 0
           => /\ pf_log[r.source] = [kind |-> "fetch", op |-> r.op]
              /\ ReturnedAt(r.op) # 0
              /\ ReturnedAt(r.op) < r.source
              /\ \A t \in ReturnedAt(r.op) + 1 .. r.source - 1 :
                    pf_log[t].kind \notin {"issue", "reset"}

(* Two operations in a row were measured from a report, with a reset        *)
(* between them.                                                            *)
C32_TwoMeasuredOperations ==
    /\ Len(pf_records) = 2
    /\ pf_records[1].source # 0
    /\ pf_records[2].source # 0
    /\ \E t \in pf_records[1].source + 1 .. pf_records[2].source - 1 :
          pf_log[t].kind = "reset"

====
